---- MODULE Spec2Model ----
(***************************************************************************)
(* Priority-orders dashboard client: the view-state controller             *)
(* (usePriorityOrders), the fetch orchestrator (fetchPriorityOrders over   *)
(* apiFetch) and the projection functions of features/priority/api.ts.     *)
(*                                                                         *)
(* Conventions.  A nullable value is a sequence of length at most one:     *)
(* Null is <<>> and Some(x) is <<x>>.  A string whose order matters (a     *)
(* period key) is the sequence of its UTF-16 code units; a message built   *)
(* by a template literal is the tuple of its segments.                     *)
(***************************************************************************)
EXTENDS Integers, Sequences, FiniteSets, TLC

VARIABLES state, cycles, filters, call, ret, page, tat, tab

vars == <<state, cycles, filters, call, ret, page, tat, tab>>

\* The components beside the priority-orders controller: the DashboardPage
\* instances, the slow-orders controller (useTatOrders) and the local state
\* of PriorityOrdersTab.
views == <<page, tat, tab>>

Null == <<>>
Some(x) == <<x>>

\* ------------------------------------------------------------------ bounds
\* Number of orchestration cycles (calls of refresh) a behaviour may start.
MaxCycles == 2

\* The filter sets the tab can hand to the controller (two distinct values).
FilterValues == {1, 2}

\* Most success responses of a run whose body is not well formed.
MaxMalformed == 2

Resources == {"overdue", "slow"}

\* ---- buildUrl (lib/api.ts 3-25).  Strings are sequences of UTF-16 code
\* units; a QueryValue is [t] or [t, v] with t the JavaScript type.
DEFAULT_API_BASE_URL == <<104, 116, 116, 112, 115, 58, 47, 47, 54, 49, 53, 99, 57, 56, 108, 99, 45, 56, 48, 48, 48, 46, 117, 115, 101, 46, 100, 101, 118, 116, 117, 110, 110, 101, 108, 115, 46, 109, 115, 47, 97, 112, 105, 47, 118, 49>>

JsNull == [t |-> "null"]

JsUndefined == [t |-> "undefined"]

JsString(units) == [t |-> "string", v |-> units]

JsNumber(n) == [t |-> "number", v |-> n]

JsBoolean(b) == [t |-> "boolean", v |-> b]

\* An array holding one plain object, as in a validation error's detail.
JsArrayOfObject == [t |-> "array"]

\* ToBoolean of a QueryValue.
JsTruthy(value) ==
  CASE value.t = "string"  -> value.v # <<>>
    [] value.t = "number"  -> value.v # 0
    [] value.t = "boolean" -> value.v
    [] value.t = "array"   -> TRUE
    [] OTHER -> FALSE

\* a || b
JsOr(a, b) == IF JsTruthy(a) THEN a ELSE b

\* Number::toString of an integer.
RECURSIVE DecimalDigits(_)
DecimalDigits(n) ==
  IF n < 10 THEN <<48 + n>> ELSE DecimalDigits(n \div 10) \o <<48 + (n % 10)>>

\* String(value)
String(value) ==
  CASE value.t = "string"    -> value.v
    [] value.t = "number"    -> IF value.v < 0 THEN <<45>> \o DecimalDigits(-value.v)
                                ELSE DecimalDigits(value.v)
    [] value.t = "boolean"   -> IF value.v THEN <<116, 114, 117, 101>> ELSE <<102, 97, 108, 115, 101>>
    [] value.t = "null"      -> <<110, 117, 108, 108>>
    [] value.t = "undefined" -> <<117, 110, 100, 101, 102, 105, 110, 101, 100>>
    [] value.t = "array"     -> <<91, 111, 98, 106, 101, 99, 116, 32, 79, 98, 106, 101, 99, 116, 93>>

HexDigit(n) == IF n < 10 THEN 48 + n ELSE 55 + n

\* application/x-www-form-urlencoded byte serializer, for code units below
\* 128: alphanumerics and * - . _ stay, a space becomes +, the rest %XX.
urlencodeUnit(c) ==
  IF c = 32 THEN <<43>>
  ELSE IF c \in {42, 45, 46, 95} \/ c \in 48..57 \/ c \in 65..90 \/ c \in 97..122
  THEN <<c>>
  ELSE <<37, HexDigit(c \div 16), HexDigit(c % 16)>>

RECURSIVE urlencode(_)
urlencode(str) ==
  IF str = <<>> THEN <<>> ELSE urlencodeUnit(Head(str)) \o urlencode(Tail(str))

\* URLSearchParams.prototype.toString: name=value pairs joined by &.
RECURSIVE searchParamsToString(_)
searchParamsToString(list) ==
  IF list = <<>> THEN <<>>
  ELSE urlencode(list[1][1]) \o <<61>> \o urlencode(list[1][2])
         \o (IF Len(list) = 1 THEN <<>> ELSE <<38>> \o searchParamsToString(Tail(list)))

\* A skip test that only knows undefined.
isOmittedUndefinedOnly(value) == value = JsUndefined

\* line 15: value === null || value === undefined || value === ''
isOmitted(value) ==
  value = JsNull \/ value = JsUndefined \/ value = JsString(<<>>)

\* lines 14-17: the loop over Object.entries(params); params is the
\* sequence of the object's [key, value] entries in insertion order.
RECURSIVE appendParams(_)
appendParams(params) ==
  IF params = <<>> THEN <<>>
  ELSE (IF isOmitted(params[1].value) THEN <<>>
        ELSE << <<params[1].key, String(params[1].value)>> >>)
       \o appendParams(Tail(params))

\* buildUrl, with API_BASE_URL as an argument (it comes from the
\* environment) and params Null when the argument is not given.
buildUrl(apiBaseUrl, path, params) ==
  LET base == IF apiBaseUrl # <<>> /\ apiBaseUrl[Len(apiBaseUrl)] = 47
              THEN SubSeq(apiBaseUrl, 1, Len(apiBaseUrl) - 1) ELSE apiBaseUrl
      normalizedPath == IF path # <<>> /\ path[1] = 47 THEN path ELSE <<47>> \o path
      url == base \o normalizedPath
      queryString == IF params = Null THEN <<>>
                     ELSE searchParamsToString(appendParams(params[1]))
  IN  IF queryString # <<>> THEN url \o <<63>> \o queryString ELSE url

K_date_from == <<100, 97, 116, 101, 95, 102, 114, 111, 109>>

K_date_to == <<100, 97, 116, 101, 95, 116, 111>>

K_customer_query == <<99, 117, 115, 116, 111, 109, 101, 114, 95, 113, 117, 101, 114, 121>>

K_min_open_hours == <<109, 105, 110, 95, 111, 112, 101, 110, 95, 104, 111, 117, 114, 115>>

K_outlier_threshold_hours == <<111, 117, 116, 108, 105, 101, 114, 95, 116, 104, 114, 101, 115, 104, 111, 108, 100, 95, 104, 111, 117, 114, 115>>

K_limit == <<108, 105, 109, 105, 116>>

SLOWEST_PATH == <<47, 97, 110, 97, 108, 121, 116, 105, 99, 115, 47, 112, 114, 105, 111, 114, 105, 116, 121, 45, 111, 114, 100, 101, 114, 115, 47, 115, 108, 111, 119, 101, 115, 116>>

OVERDUE_PATH == <<47, 97, 110, 97, 108, 121, 116, 105, 99, 115, 47, 111, 114, 100, 101, 114, 115, 47, 111, 118, 101, 114, 100, 117, 101>>

\* fetchPriorityOrders, lines 299-306: the parameters of the slow-orders
\* request.
slowestParams(f) ==
  << [key |-> K_date_from, value |-> f.dateFrom],
     [key |-> K_date_to, value |-> f.dateTo],
     [key |-> K_customer_query, value |-> JsOr(f.slowCustomerQuery, JsUndefined)],
     [key |-> K_min_open_hours, value |-> f.slowMinOpenHours],
     [key |-> K_outlier_threshold_hours, value |-> f.slowThresholdHours],
     [key |-> K_limit, value |-> JsNumber(25)] >>

\* ------------------------------------------------------------ lib/api.ts
\* A response is [status, statusText, body]; the body is text that
\* response.json() cannot parse, or JSON text with its parsed value: null,
\* a string, or an object with an optional detail member.
NotJson == [json |-> FALSE]

JsonBody(parsed) == [json |-> TRUE, parsed |-> parsed]

JsonObject(detail) == [t |-> "object", detail |-> detail]

STATUS_500 == <<73, 110, 116, 101, 114, 110, 97, 108, 32, 83, 101, 114, 118, 101, 114, 32, 69, 114, 114, 111, 114>>

STATUS_422 == <<85, 110, 112, 114, 111, 99, 101, 115, 115, 97, 98, 108, 101, 32, 69, 110, 116, 105, 116, 121>>

DETAIL_INVALID_RANGE == <<73, 110, 118, 97, 108, 105, 100, 32, 100, 97, 116, 101, 32, 114, 97, 110, 103, 101>>

\* response.ok
responseOk(resp) == resp.status \in 200..299

\* parsed?.detail
parsedDetail(body) ==
  IF body.json /\ body.parsed.t = "object" /\ body.parsed.detail # Null
  THEN body.parsed.detail[1]
  ELSE JsUndefined

\* A message that never reads the body.
apiFetchErrorMessageStatusOnly(resp) ==
  <<"API request failed (", resp.status, "): ", resp.statusText>>

\* The message of the Error apiFetch throws for a non-success response:
\* `API request failed (${response.status}): ${detail}` where detail is the
\* body's detail when the body parses and the detail is truthy, else
\* response.statusText.
apiFetchErrorMessage(resp) ==
  LET detail == IF JsTruthy(parsedDetail(resp.body))
                THEN String(parsedDetail(resp.body)) ELSE resp.statusText
  IN  <<"API request failed (", resp.status, "): ", detail>>

\* How a call of apiFetch ends once fetch has answered with resp: the
\* thrown error, or the returned value.  The message of the SyntaxError of
\* response.json() is engine-defined (Null here).
apiFetchOutcome(resp) ==
  IF ~responseOk(resp)
  THEN [threw |-> TRUE,
        error |-> [name |-> "Error", message |-> Some(apiFetchErrorMessage(resp))]]
  ELSE IF ~resp.body.json
  THEN [threw |-> TRUE, error |-> [name |-> "SyntaxError", message |-> Null]]
  ELSE [threw |-> FALSE, value |-> resp.body.parsed]

\* Non-success HTTP responses the analytics service may answer with: one
\* whose body carries no detail and one whose body carries a detail string.
HttpFailures ==
  { [status |-> 500, statusText |-> STATUS_500, body |-> NotJson],
    [status |-> 422, statusText |-> STATUS_422,
     body |-> JsonBody(JsonObject(Some(JsString(DETAIL_INVALID_RANGE))))] }

\* The failure each resource answers with when it fails (the overdue resource
\* without a detail, the slow-orders resource with one).
HttpFailureOf(r) ==
  CHOOSE resp \in HttpFailures : (resp.status = 500) <=> (r = "overdue")

\* A request handed to fetch: the promise returned by apiFetch.
\* status is the promise's state, sent counts the calls of fetch made for it.
apiFetch(resource, f, c) ==
  [resource |-> resource, filters |-> f, cycle |-> c,
   status |-> "pending", sent |-> 1, value |-> Null, reason |-> Null]

\* apiFetch's continuation when the HTTP exchange ends with a non-success
\* response: a retrying variant re-issues the request instead of throwing.
apiFetchRejectRetry(req, resp) ==
  IF req.sent < 2
  THEN [req EXCEPT !.sent = @ + 1]
  ELSE [req EXCEPT !.status = "rejected",
                   !.reason = Some(apiFetchErrorMessage(resp))]

\* apiFetch's continuation for a non-success response: throws, no retry.
apiFetchReject(req, resp) ==
  [req EXCEPT !.status = "rejected",
              !.reason = Some(apiFetchErrorMessage(resp))]

\* What response.json() of a success response parses to: an object with every
\* member the projections read, the JSON value null, the object {}, or a
\* complete object one of whose date strings does not parse (period_start of
\* a timeline point in the overdue body, date_created of an item in the
\* slow body).
BodyShapes == {"wellFormed", "null", "empty", "invalidDate"}

\* apiFetch's continuation for a success response: returns the parsed body
\* unvalidated.  The body is identified by the request it answers and by
\* its shape.
apiFetchResolve(req, shape) ==
  [req EXCEPT !.status = "fulfilled",
              !.value = Some([resource |-> req.resource, cycle |-> req.cycle,
                              filters |-> req.filters, shape |-> shape])]

\* ------------------------------------------- features/priority/api.ts
\* A combinator that is fulfilled by the first fulfilled request (first-wins).
PromiseAllFirstWins(prev, overdue, slow, settled) ==
  IF prev.status # "pending" THEN prev
  ELSE IF settled.status = "rejected"
       THEN [status |-> "rejected", value |-> Null, reason |-> settled.reason]
  ELSE IF settled.status = "fulfilled"
       THEN [status |-> "fulfilled",
             value |-> Some([overdue |-> overdue.value, slow |-> slow.value]),
             reason |-> Null]
  ELSE prev

\* A combinator that waits for both requests and is fulfilled when at least
\* one of them is (partial composite).
PromiseAllSettledAny(prev, overdue, slow, settled) ==
  IF prev.status # "pending" THEN prev
  ELSE IF overdue.status = "pending" \/ slow.status = "pending" THEN prev
  ELSE IF overdue.status = "rejected" /\ slow.status = "rejected"
       THEN [status |-> "rejected", value |-> Null, reason |-> settled.reason]
  ELSE [status |-> "fulfilled",
        value |-> Some([overdue |-> overdue.value, slow |-> slow.value]),
        reason |-> Null]

\* A combinator that settles only when both requests have settled.
PromiseAllWaitsForBoth(prev, overdue, slow, settled) ==
  IF prev.status # "pending" THEN prev
  ELSE IF overdue.status = "pending" \/ slow.status = "pending" THEN prev
  ELSE IF overdue.status = "rejected"
       THEN [status |-> "rejected", value |-> Null, reason |-> overdue.reason]
  ELSE IF slow.status = "rejected"
       THEN [status |-> "rejected", value |-> Null, reason |-> slow.reason]
  ELSE [status |-> "fulfilled",
        value |-> Some([overdue |-> overdue.value, slow |-> slow.value]),
        reason |-> Null]

\* Promise.all over the two apiFetch promises, re-evaluated when the request
\* `settled` (the new value of one of the two) settles; prev is the combined
\* promise before that.  A settled promise never changes; the first rejection
\* rejects it with that request's reason; it is fulfilled with both bodies
\* once both requests are fulfilled.
PromiseAll(prev, overdue, slow, settled) ==
  IF prev.status # "pending" THEN prev
  ELSE IF settled.status = "rejected"
       THEN [status |-> "rejected", value |-> Null, reason |-> settled.reason]
  ELSE IF overdue.status = "fulfilled" /\ slow.status = "fulfilled"
       THEN [status |-> "fulfilled",
             value |-> Some([overdue |-> overdue.value, slow |-> slow.value]),
             reason |-> Null]
  ELSE prev

PendingPromise == [status |-> "pending", value |-> Null, reason |-> Null]

\* fetchPriorityOrders(filters), up to its await: both requests are issued
\* in the same synchronous step, neither waits for the other.  all is the
\* promise of Promise.all, result the promise the async function returns.
fetchPriorityOrders(f, c) ==
  [filters |-> f,
   overdue |-> apiFetch("overdue", f, c),
   slow    |-> apiFetch("slow", f, c),
   all     |-> PendingPromise,
   result  |-> PendingPromise]

\* The message of the TypeError thrown by reading member key of null or of
\* undefined.
TypeErrorMessage(of, key) ==
  <<"Cannot read properties of ", of, " (reading '", key, "')">>

\* buildKpis(overdueResponse): response.kpis throws on null, and
\* kpis.total_overdue throws when the body has no kpis member.  Null when
\* nothing is thrown.
buildKpisError(response) ==
  IF response = Null THEN Some(TypeErrorMessage("undefined", "kpis"))
  ELSE IF response[1].shape = "null" THEN Some(TypeErrorMessage("null", "kpis"))
  ELSE IF response[1].shape = "empty"
  THEN Some(TypeErrorMessage("undefined", "total_overdue"))
  ELSE Null

\* mapTimeline(overdueResponse.timeline): formatDateLabel throws a RangeError
\* on the Invalid Date parseISO gives for a period_start that does not parse.
mapTimelineError(response) ==
  IF response[1].shape = "invalidDate" THEN Some(<<"Invalid time value">>)
  ELSE Null

\* mapSlowReportedOrders(slowResponse): response.stats throws on null, and
\* response.stats.total_orders throws when the body has no stats member; a
\* date that does not parse is stored as Invalid Date, nothing is thrown.
mapSlowReportedOrdersError(response) ==
  IF response = Null THEN Some(TypeErrorMessage("undefined", "stats"))
  ELSE IF response[1].shape = "null" THEN Some(TypeErrorMessage("null", "stats"))
  ELSE IF response[1].shape = "empty"
  THEN Some(TypeErrorMessage("undefined", "total_orders"))
  ELSE Null

\* The first error thrown while the object literal of the return statement
\* is evaluated, kpis first and slowReported last; Null when none is.
projectionError(overdueResponse, slowResponse) ==
  IF buildKpisError(overdueResponse) # Null
  THEN buildKpisError(overdueResponse)
  ELSE IF mapTimelineError(overdueResponse) # Null
  THEN mapTimelineError(overdueResponse)
  ELSE mapSlowReportedOrdersError(slowResponse)

\* A composite that takes its slow part from the newest cycle's response
\* when that one has arrived (patching across cycles).
fetchPriorityOrdersResultPatched(cs, c) ==
  LET overdueResponse == cs[c].all.value[1].overdue
      slowResponse == IF cs[Len(cs)].slow.status = "fulfilled"
                      THEN cs[Len(cs)].slow.value
                      ELSE cs[c].all.value[1].slow
      thrown == projectionError(overdueResponse, slowResponse)
  IN  IF thrown # Null
      THEN [status |-> "rejected", value |-> Null, reason |-> thrown]
      ELSE [status |-> "fulfilled",
            value |-> Some([overdue |-> overdueResponse, slow |-> slowResponse]),
            reason |-> Null]

\* How fetchPriorityOrders ends once its await is fulfilled: every part of
\* the composite is projected from the two bodies of this one call (kpis,
\* topOrders, warningOrders, readySamples, timeline, heatmap, stateBreakdown
\* from the overdue body; slowReported from the slow body).  A projection
\* that throws rejects the promise with the error's message; otherwise the
\* promise is fulfilled with the composite.
fetchPriorityOrdersResult(cs, c) ==
  LET overdueResponse == cs[c].all.value[1].overdue
      slowResponse == cs[c].all.value[1].slow
      thrown == projectionError(overdueResponse, slowResponse)
  IN  IF thrown # Null
      THEN [status |-> "rejected", value |-> Null, reason |-> thrown]
      ELSE [status |-> "fulfilled",
            value |-> Some([overdue |-> overdueResponse, slow |-> slowResponse]),
            reason |-> Null]

\* The promise of fetchPriorityOrders after Promise.all was re-evaluated:
\* pending while the await is, rejected with the reason of a rejected await,
\* else settled by the return statement.
fetchPriorityOrdersAwaited(cs, c) ==
  CASE cs[c].all.status = "pending"   -> PendingPromise
    [] cs[c].all.status = "rejected"  -> cs[c].all
    [] cs[c].all.status = "fulfilled" -> fetchPriorityOrdersResult(cs, c)

\* The state of an orchestration cycle: Fetching until the promise of
\* fetchPriorityOrders settles, then Succeeded or Failed.
CycleState(cy) ==
  CASE cy.result.status = "pending"   -> "Fetching"
    [] cy.result.status = "fulfilled" -> "Succeeded"
    [] cy.result.status = "rejected"  -> "Failed"

\* ------------------------------------------ usePriorityOrders (controller)
initialState == [data |-> Null, loading |-> FALSE, error |-> Null]

\* A start of refresh that also blanks data.
refreshStartClearing(prev) == [data |-> Null, loading |-> TRUE, error |-> Null]

\* A start of refresh that keeps the previous error.
refreshStartKeepingError(prev) == [prev EXCEPT !.loading = TRUE]

\* refresh, first statement: setState(prev => ({...prev, loading: true,
\* error: null})).
refreshStart(prev) == [prev EXCEPT !.loading = TRUE, !.error = Null]

\* A catch branch that forgets loading: false.
refreshSettledStillLoading(prev, cs, c) ==
  CASE cs[c].result.status = "fulfilled" ->
         [data |-> cs[c].result.value, loading |-> FALSE, error |-> Null]
    [] cs[c].result.status = "rejected" ->
         [data |-> Null, loading |-> prev.loading, error |-> cs[c].result.reason]
    [] OTHER -> prev

\* refresh, after the await of fetchPriorityOrders: the try branch stores
\* the composite, the catch branch stores the message (of a failed request
\* or of a projection that threw) and clears data.  Neither looks at which
\* cycle is the newest one.
refreshSettled(prev, cs, c) ==
  CASE cs[c].result.status = "fulfilled" ->
         [data |-> cs[c].result.value, loading |-> FALSE, error |-> Null]
    [] cs[c].result.status = "rejected" ->
         [data |-> Null, loading |-> FALSE, error |-> cs[c].result.reason]
    [] OTHER -> prev

\* useTatOrders: const initialState (part_006:11).
tatInitialState == [data |-> Null, loading |-> FALSE, error |-> Null]

DEFAULT_MIN_DAYS == 4

DEFAULT_SLA_HOURS == 120

\* PriorityOrdersTab before its first render: formState as useState
\* initialises it, the UTC day computeRange reads from the clock, the change
\* of the browser's UTC offset over the lookback that ends on that day (in
\* milliseconds, 0 in a zone without a clock change in it), and the rows of
\* the heat map not yet computed.
tabInitial ==
  [formState |-> [minDaysOverdue |-> DEFAULT_MIN_DAYS, slaHours |-> DEFAULT_SLA_HOURS],
   today |-> 1,
   offsetChange |-> 0,
   heatmapRows |-> Null]

\* No page mounted, the slow-orders controller and the tab untouched.
NoViews ==
  /\ page = <<>>
  /\ tat = [state |-> tatInitialState, requests |-> <<>>]
  /\ tab = tabInitial

Init ==
  /\ state = initialState
  /\ cycles = <<>>
  /\ filters = 1
  /\ call = Null
  /\ ret = Null
  /\ NoViews

\* One call of refresh(): the optimistic setState and the two requests.
StartCycle(f) ==
  /\ Len(cycles) < MaxCycles
  /\ state' = refreshStart(state)
  /\ cycles' = Append(cycles, fetchPriorityOrders(f, Len(cycles) + 1))
  /\ filters' = f
  /\ UNCHANGED <<call, ret, views>>

\* The effect of the first render.
Mount == Len(cycles) = 0 /\ StartCycle(filters)

\* The filters prop changes: refresh is re-created and the effect calls it.
FilterChange(f) == Len(cycles) > 0 /\ f # filters /\ StartCycle(f)

\* An explicit call of the refresh action with the current filters.
Refresh == Len(cycles) > 0 /\ StartCycle(filters)

\* One request of cycle c settles; the microtasks that follow run to the end:
\* Promise.all is re-evaluated, if it settled fetchPriorityOrders resumes and
\* returns or throws, and refresh resumes after it.
Settle(c, r, req) ==
  LET cy  == [cycles[c] EXCEPT ![r] = req]
      cy2 == [cy EXCEPT !.all = PromiseAll(cycles[c].all, cy.overdue, cy.slow, req)]
      cs2 == [cycles EXCEPT ![c] = cy2]
      cy3 == [cy2 EXCEPT !.result = IF cycles[c].result.status = "pending"
                                    THEN fetchPriorityOrdersAwaited(cs2, c)
                                    ELSE cycles[c].result]
      cs  == [cycles EXCEPT ![c] = cy3]
  IN  /\ cycles' = cs
      /\ state' = IF cycles[c].result.status = "pending"
                  THEN refreshSettled(state, cs, c) ELSE state
      /\ UNCHANGED <<filters, call, ret, views>>

\* The requests answered so far with a body that is not well formed.
MalformedBodies ==
  {cr \in (1..Len(cycles)) \X Resources :
     /\ cycles[cr[1]][cr[2]].status = "fulfilled"
     /\ cycles[cr[1]][cr[2]].value[1].shape # "wellFormed"}

\* A request is answered 200 with a body of one of the shapes.
RequestSucceeds(c, r, shape) ==
  /\ c \in 1..Len(cycles)
  /\ cycles[c][r].status = "pending"
  /\ shape # "wellFormed" => Cardinality(MalformedBodies) < MaxMalformed
  /\ Settle(c, r, apiFetchResolve(cycles[c][r], shape))

RequestFails(c, r, resp) ==
  /\ c \in 1..Len(cycles)
  /\ cycles[c][r].status = "pending"
  /\ Settle(c, r, apiFetchReject(cycles[c][r], resp))

Next ==
  \/ Mount
  \/ \E f \in FilterValues : FilterChange(f)
  \/ Refresh
  \/ \E c \in 1..MaxCycles, r \in Resources, shape \in BodyShapes :
       RequestSucceeds(c, r, shape)
  \/ \E c \in 1..MaxCycles, r \in Resources :
       RequestFails(c, r, HttpFailureOf(r))

Spec == Init /\ [][Next]_vars

\* ===================================================== controller claims
NumCycles == Len(cycles)

Newest == Len(cycles)

NoneInFlight == \A c \in 1..NumCycles : CycleState(cycles[c]) # "Fetching"

\* state.data holds a part that came from a response of cycle c.
DataOfCycle(c) ==
  /\ state.data # Null
  /\ \E part \in {state.data[1].overdue, state.data[1].slow} :
       part # Null /\ part[1].cycle = c

\* Cycle c leaves Fetching in the current step.
Completes(c) ==
  /\ CycleState(cycles[c]) = "Fetching"
  /\ CycleState(cycles'[c]) # "Fetching"

\* The successful cycles, and the most recently started of them.
Succeeded == {c \in 1..NumCycles : CycleState(cycles[c]) = "Succeeded"}

LastSucceeded == CHOOSE c \in Succeeded : \A d \in Succeeded : d <= c

\* C1 (superseded cycle): once no cycle is in flight, if the most recently
\* started cycle succeeded then data is that cycle's composite, whatever the
\* order in which the older cycles resolved.
C1_SupersededCycle ==
  (NumCycles >= 2 /\ NoneInFlight /\ CycleState(cycles[Newest]) = "Succeeded")
    => state.data = cycles[Newest].result.value

\* C2 (only the live cycle writes): a step in which a cycle other than the
\* most recently started one completes leaves data, loading and error as
\* they were.
C2_OnlyLiveCycleWrites ==
  [][\A c \in 1..NumCycles : (c < Newest /\ Completes(c)) => state' = state]_vars

\* C3 (last-known-good retention): when the newest cycle fails while data
\* holds the composite of the most recent successful cycle, the controller
\* ends with that data, loading = false and error = the failure message.
C3_LastKnownGood ==
  [][( /\ NumCycles >= 1
       /\ Completes(Newest)
       /\ CycleState(cycles'[Newest]) = "Failed"
       /\ Succeeded # {}
       /\ state.data = cycles[LastSucceeded].result.value )
     => state' = [data |-> state.data, loading |-> FALSE,
                  error |-> cycles'[Newest].result.reason]]_vars

\* C4 (join, not first-wins): the await of cycle c is fulfilled, and a
\* composite of c exists, as the value of its fetchPriorityOrders or inside
\* the controller's data, only in states where both requests of c are
\* fulfilled.
C4_JoinNotFirstWins ==
  \A c \in 1..NumCycles :
    (\/ cycles[c].all.status = "fulfilled"
     \/ cycles[c].result.status = "fulfilled"
     \/ DataOfCycle(c))
      => (cycles[c].overdue.status = "fulfilled" /\ cycles[c].slow.status = "fulfilled")

C4_Witness ==
  \E c \in 1..NumCycles :
    /\ cycles[c].result.status = "fulfilled"
    /\ state.data = cycles[c].result.value
    /\ state.data # Null
    /\ state.loading = FALSE

\* C5 (atomic failure): a cycle one of whose requests was rejected never has
\* a composite, and no part of the controller's data comes from it.
C5_AtomicFailure ==
  \A c \in 1..NumCycles :
    (cycles[c].overdue.status = "rejected" \/ cycles[c].slow.status = "rejected")
      => /\ cycles[c].all.status = "rejected"
         /\ cycles[c].all.value = Null
         /\ cycles[c].result.status = "rejected"
         /\ cycles[c].result.value = Null
         /\ ~DataOfCycle(c)

C5_Witness ==
  \E c \in 1..NumCycles, r \in Resources, q \in Resources :
    /\ cycles[c][r].status = "fulfilled"
    /\ cycles[c][q].status = "rejected"
    /\ CycleState(cycles[c]) = "Failed"

\* C6 (start of a cycle): the step that starts a cycle sets loading to true
\* and error to null while the new cycle is still Fetching, and keeps data.
C6_StartFrame ==
  [][Len(cycles') > Len(cycles)
       => /\ state'.loading = TRUE
          /\ state'.error = Null
          /\ state'.data = state.data
          /\ CycleState(cycles'[Len(cycles')]) = "Fetching"]_vars

C6_Witness ==
  /\ NumCycles >= 2
  /\ cycles[Newest].overdue.status = "pending"
  /\ cycles[Newest].slow.status = "pending"
  /\ state.loading = TRUE
  /\ state.error = Null
  /\ state.data # Null

\* The two bodies of cycle c, as a composite.
BodiesOf(c) == [overdue |-> cycles[c].overdue.value, slow |-> cycles[c].slow.value]

C7_Inv ==
  state.data # Null =>
    \E c \in 1..NumCycles :
      /\ CycleState(cycles[c]) = "Succeeded"
      /\ state.data = Some(BodiesOf(c))
      /\ state.data[1].overdue # Null /\ state.data[1].slow # Null
      /\ state.data[1].overdue[1].cycle = c /\ state.data[1].slow[1].cycle = c
      /\ state.data[1].overdue[1].resource = "overdue"
      /\ state.data[1].slow[1].resource = "slow"

\* C7 (coherent composite): data is null or the composite of the overdue
\* body and the slow body of one and the same successful cycle, and the step
\* in which a cycle succeeds replaces data by exactly that cycle's two bodies.
C7_CoherentComposite ==
  /\ []C7_Inv
  /\ [][\A c \in 1..NumCycles :
          (Completes(c) /\ CycleState(cycles'[c]) = "Succeeded")
            => state'.data = Some([overdue |-> cycles'[c].overdue.value,
                                   slow |-> cycles'[c].slow.value])]_vars

C7_Witness ==
  /\ NumCycles >= 2
  /\ Cardinality(Succeeded) >= 2
  /\ state.data # Null
  /\ state.data[1].overdue[1].cycle < Newest

\* C8 (no automatic retry): every started cycle has sent exactly one request
\* to each resource, also after a request failed, and the number of requests
\* sent for a cycle never changes after the cycle's start; a step in which a
\* request settles starts no cycle.
C8_NoRetry ==
  /\ [](\A c \in 1..NumCycles :
          cycles[c].overdue.sent = 1 /\ cycles[c].slow.sent = 1)
  /\ [][\A c \in 1..NumCycles :
          /\ cycles'[c].overdue.sent = cycles[c].overdue.sent
          /\ cycles'[c].slow.sent = cycles[c].slow.sent
          /\ (cycles'[c] # cycles[c] => Len(cycles') = Len(cycles))]_vars

C8_Witness ==
  \E c \in 1..NumCycles, r \in Resources :
    /\ cycles[c][r].status = "rejected"
    /\ cycles[c][r].sent = 1
    /\ CycleState(cycles[c]) = "Failed"
    /\ state.error # Null

\* One request of cycle c settles, whatever its outcome.
RequestSettles(c, r) ==
  \/ \E shape \in BodyShapes : RequestSucceeds(c, r, shape)
  \/ RequestFails(c, r, HttpFailureOf(r))

\* Most cycles started in a run whose requests all settle.
MaxLiveCycles == 2

\* Most malformed success bodies in such a run.
MaxLiveMalformed == 1

\* The controller under filters that stay the same: cycles are started by
\* the mount and by refresh().
NextLive ==
  /\ \/ Mount
     \/ Refresh
     \/ \E c \in 1..MaxLiveCycles, r \in Resources : RequestSettles(c, r)
  /\ Len(cycles') <= MaxLiveCycles
  /\ Cardinality(MalformedBodies') <= MaxLiveMalformed

\* While a request is pending, one of the pending requests eventually
\* settles; the requests issued being finitely many, each of them does.
SpecLive ==
  /\ Init
  /\ [][NextLive]_vars
  /\ WF_vars(\E c \in 1..MaxLiveCycles, r \in Resources : RequestSettles(c, r))

OtherResource(r) == IF r = "overdue" THEN "slow" ELSE "overdue"

\* C21 (cycle termination): when every issued request eventually settles,
\* every started cycle eventually leaves Fetching for Succeeded or Failed and
\* stays there, and once cycles were started the controller reaches a state
\* where every started cycle is Succeeded or Failed, none is in flight and
\* loading is false.
C21_CycleTermination ==
  /\ (NumCycles > 0)
       ~> ( /\ \A c \in 1..NumCycles :
                 CycleState(cycles[c]) \in {"Succeeded", "Failed"}
            /\ NoneInFlight
            /\ ~state.loading )
  /\ [][\A c \in 1..NumCycles :
          CycleState(cycles[c]) # "Fetching"
            => CycleState(cycles'[c]) = CycleState(cycles[c])]_vars
  /\ []((NumCycles > 0 /\ NoneInFlight) => ~state.loading)

\* Two cycles, one Succeeded and one Failed by a projection that threw on
\* the bodies of two fulfilled requests, nothing in flight.
C21_Witness ==
  /\ NumCycles >= 2
  /\ NoneInFlight
  /\ \E c, d \in 1..NumCycles :
       /\ CycleState(cycles[c]) = "Succeeded"
       /\ CycleState(cycles[d]) = "Failed"
       /\ cycles[d].overdue.status = "fulfilled"
       /\ cycles[d].slow.status = "fulfilled"
  /\ ~state.loading

\* C22 (immediate failure): the step in which a request of the live (newest,
\* still Fetching) cycle fails sets error to that request's message and
\* loading to false, whether or not the cycle's other request has settled;
\* a request that settles in a cycle that has already left Fetching changes
\* nothing in the controller.
C22_ImmediateFailure ==
  [][\A c \in 1..NumCycles, r \in Resources :
       /\ ( /\ c = Newest
            /\ CycleState(cycles[c]) = "Fetching"
            /\ cycles[c][r].status = "pending"
            /\ cycles'[c][r].status = "rejected" )
          => /\ state'.error = cycles'[c][r].reason
             /\ state'.error # Null
             /\ ~state'.loading
             /\ CycleState(cycles'[c]) = "Failed"
             /\ cycles'[c][OtherResource(r)] = cycles[c][OtherResource(r)]
       /\ ( /\ CycleState(cycles[c]) # "Fetching"
            /\ cycles'[c][r] # cycles[c][r] )
          => state' = state]_vars

\* The live cycle has failed on one request while its other request is
\* still pending, and the controller already shows the failure.
C22_PendingOther ==
  /\ NumCycles > 0
  /\ CycleState(cycles[Newest]) = "Failed"
  /\ \E r \in Resources :
       /\ cycles[Newest][r].status = "rejected"
       /\ cycles[Newest][OtherResource(r)].status = "pending"
       /\ state.error = cycles[Newest][r].reason
  /\ ~state.loading

\* C27 (loading excludes error): in every reachable state of the controller
\* loading = true implies error = null.
C27_LoadingNoError == state.loading => state.error = Null

\* A refresh started while an error was shown: loading, and the error gone.
C27_Witness ==
  /\ state.loading
  /\ state.error = Null
  /\ \E c \in 1..NumCycles : CycleState(cycles[c]) = "Failed"
  /\ CycleState(cycles[Newest]) = "Fetching"

\* ============================================ projections (pure functions)
\* A JavaScript number is [k, v]: k = "fin" with the value v, or one of the
\* non-finite kinds "nan", "inf", "ninf"; "undefined" is an absent value.
Fin(n) == [k |-> "fin", v |-> n]

NaN == [k |-> "nan", v |-> 0]

POSITIVE_INFINITY == [k |-> "inf", v |-> 0]

NEGATIVE_INFINITY == [k |-> "ninf", v |-> 0]

Undefined == [k |-> "undefined", v |-> 0]

\* Number.isFinite(x): true for finite numbers only, no coercion.
NumberIsFinite(x) == x.k = "fin"

\* a > b on numbers (IEEE 754): false as soon as one side is NaN.
JsGreater(a, b) ==
  CASE a.k = "nan" \/ b.k = "nan" -> FALSE
    [] a.k = "inf"  -> b.k # "inf"
    [] a.k = "ninf" -> FALSE
    [] b.k = "inf"  -> FALSE
    [] b.k = "ninf" -> TRUE
    [] OTHER        -> a.v > b.v

\* a || b on nullable strings: a when it is neither null nor "".
OrElse(a, b) == IF a # Null /\ a[1] # "" THEN a[1] ELSE b

\* -------------------------------------------------------------- toTitleCase
\* Labels are sequences of UTF-16 code units.  The units used here:
\* 32 " ", 45 "-", 95 "_", 83 "S", 115 "s", 223 "ß" (sharp s).
DASHES == <<45, 45>>

\* String.prototype.toLowerCase, per code unit: A-Z map to a-z; the other
\* units used here, "ß" included, are their own lower case.
LowerUnit(c) == IF c >= 65 /\ c <= 90 THEN c + 32 ELSE c

toLowerCase(str) == [i \in 1..Len(str) |-> LowerUnit(str[i])]

\* String.prototype.toUpperCase of a one-unit string: a-z map to A-Z, and
\* "ß" maps to the two units "SS" (Unicode SpecialCasing).
toUpperCase(c) ==
  IF c >= 97 /\ c <= 122 THEN <<c - 32>>
  ELSE IF c = 223 THEN <<83, 83>>
  ELSE <<c>>

\* The class [\s_] of the split pattern.
IsSeparator(c) == c \in {9, 10, 11, 12, 13, 32, 95}

\* str.split(/[\s_]+/): the pieces between the runs of separators; a run at
\* the start or at the end leaves an empty piece there.
splitWords(str) ==
  LET W[i \in 0..Len(str)] ==
        IF i = 0 THEN << <<>> >>
        ELSE IF IsSeparator(str[i])
             THEN IF i > 1 /\ IsSeparator(str[i - 1])
                  THEN W[i - 1]
                  ELSE Append(W[i - 1], <<>>)
             ELSE [W[i - 1] EXCEPT ![Len(W[i - 1])] = Append(@, str[i])]
  IN  W[Len(str)]

\* word.charAt(0).toUpperCase() + word.slice(1); charAt(0) of "" is "".
capitalize(word) ==
  IF word = <<>> THEN <<>>
  ELSE toUpperCase(word[1]) \o SubSeq(word, 2, Len(word))

\* A join without separator.
joinWordsGlued(words) ==
  LET J[i \in 0..Len(words)] == IF i = 0 THEN <<>> ELSE J[i - 1] \o words[i]
  IN  J[Len(words)]

\* words.join(' ').
joinWords(words) ==
  LET J[i \in 0..Len(words)] ==
        IF i = 0 THEN <<>>
        ELSE IF i = 1 THEN words[1]
        ELSE J[i - 1] \o <<32>> \o words[i]
  IN  J[Len(words)]

\* toTitleCase(value): "--" for an absent or empty value.
toTitleCase(value) ==
  IF value = Null \/ value[1] = <<>> THEN DASHES
  ELSE LET words == splitWords(toLowerCase(value[1]))
       IN  joinWords([i \in 1..Len(words) |-> capitalize(words[i])])

\* ------------------------------------------------- date-fns parseISO, format
\* A Date is [valid, year, month, day]; Invalid Date has valid = FALSE.
InvalidDate == [valid |-> FALSE, year |-> 0, month |-> 0, day |-> 0]

IsDigit(c) == c >= 48 /\ c <= 57

DaysInMonth(y, m) ==
  IF m \in {4, 6, 9, 11} THEN 30
  ELSE IF m = 2
       THEN IF (y % 4 = 0 /\ y % 100 # 0) \/ y % 400 = 0 THEN 29 ELSE 28
  ELSE 31

\* parseISO(str) on the calendar-date form YYYY-MM-DD: the local midnight of
\* that day, or Invalid Date when the month or the day does not exist.  A
\* string of another form is not an ISO 8601 form here: Invalid Date.
parseISO(str) ==
  IF /\ Len(str) = 10
     /\ str[5] = 45 /\ str[8] = 45
     /\ \A i \in {1, 2, 3, 4, 6, 7, 9, 10} : IsDigit(str[i])
  THEN LET y == (str[1] - 48) * 1000 + (str[2] - 48) * 100
                  + (str[3] - 48) * 10 + (str[4] - 48)
           m == (str[6] - 48) * 10 + (str[7] - 48)
           d == (str[9] - 48) * 10 + (str[10] - 48)
       IN  IF m >= 1 /\ m <= 12 /\ d >= 1 /\ d <= DaysInMonth(y, m)
           THEN [valid |-> TRUE, year |-> y, month |-> m, day |-> d]
           ELSE InvalidDate
  ELSE InvalidDate

\* value ? parseISO(value) : null on a nullable string.
parseNullableDate(value) ==
  IF value = Null \/ value[1] = <<>> THEN Null ELSE Some(parseISO(value[1]))

\* The abbreviated month names of format's MMM token.
MonthAbbr ==
  << <<74, 97, 110>>,
     <<70, 101, 98>>,
     <<77, 97, 114>>,
     <<65, 112, 114>>,
     <<77, 97, 121>>,
     <<74, 117, 110>>,
     <<74, 117, 108>>,
     <<65, 117, 103>>,
     <<83, 101, 112>>,
     <<79, 99, 116>>,
     <<78, 111, 118>>,
     <<68, 101, 99>> >>

\* formatDateLabel(date) = format(date, 'MMM dd') for a valid date: month
\* abbreviation, a space, the day on two digits.  (format throws a
\* RangeError for Invalid Date; callers test date.valid first.)
formatDateLabel(date) ==
  MonthAbbr[date.month] \o <<32, 48 + (date.day \div 10), 48 + (date.day % 10)>>

\* a ?? b on a nullable number.
Coalesce(a, b) == IF a # Null THEN a[1] ELSE b

\* A normalization that keeps an explicit list even when it is empty.
normalizeTestIdsAnyList(test) ==
  IF test.test_ids # Null THEN test.test_ids[1] ELSE <<test.primary_test_id>>

\* mapOrders, lines 172-175: the explicit id list when it is a non-empty
\* array, else the primary id alone.
normalizeTestIds(test) ==
  IF test.test_ids # Null /\ Len(test.test_ids[1]) > 0
  THEN test.test_ids[1]
  ELSE <<test.primary_test_id>>

\* mapOrders, lines 168-182: one OverdueTest per raw test.
mapTest(test) ==
  [id      |-> test.primary_test_id,
   testIds |-> normalizeTestIds(test),
   label   |-> OrElse(test.label_abbr, "--"),
   states  |-> IF test.states # Null
               THEN [i \in 1..Len(test.states[1]) |->
                       toTitleCase(Some(test.states[1][i]))]
               ELSE <<>>]

\* mapOrders, lines 160-183: one OverdueSample per raw incomplete sample.
mapSample(sample) ==
  [id              |-> sample.sample_id,
   customId        |-> OrElse(sample.sample_custom_id, "--"),
   name            |-> OrElse(sample.sample_name, "--"),
   matrixType      |-> OrElse(sample.matrix_type, "--"),
   totalTests      |-> Coalesce(sample.total_tests, 0),
   incompleteTests |-> Coalesce(sample.incomplete_tests, 0),
   tests           |-> IF sample.tests # Null
                       THEN [i \in 1..Len(sample.tests[1]) |->
                               mapTest(sample.tests[1][i])]
                       ELSE <<>>]

\* A threshold that falls back to 0 for a non-finite SLA value.
slaThresholdZero(slaHours) == IF NumberIsFinite(slaHours) THEN slaHours ELSE Fin(0)

\* mapOrders, line 148: the SLA threshold.
slaThreshold(slaHours) ==
  IF NumberIsFinite(slaHours) THEN slaHours ELSE POSITIVE_INFINITY

\* mapOrders, lines 149-184: the OverdueOrder of one raw record.  reference
\* is the template `Order ${order_id}` when custom_formatted_id is absent.
mapOrder(item, threshold) ==
  [id          |-> item.order_id,
   reference   |-> IF item.custom_formatted_id # Null
                      /\ item.custom_formatted_id[1] # ""
                   THEN <<item.custom_formatted_id[1]>>
                   ELSE <<"Order ", item.order_id>>,
   customer    |-> OrElse(item.customer_name, "--"),
   state       |-> toTitleCase(item.state),
   createdAt   |-> parseNullableDate(item.date_created),
   openHours   |-> item.open_hours,
   slaBreached |-> JsGreater(item.open_hours, threshold),
   totalSamples |-> Coalesce(item.total_samples, 0),
   incompleteSamples |->
     Coalesce(item.incomplete_sample_count,
              IF item.incomplete_samples # Null
              THEN Len(item.incomplete_samples[1]) ELSE 0),
   samples     |-> IF item.incomplete_samples # Null
                   THEN [k \in 1..Len(item.incomplete_samples[1]) |->
                           mapSample(item.incomplete_samples[1][k])]
                   ELSE <<>>]

\* A mapper that returns the orders in reverse.
mapOrdersReversed(entries, slaHours) ==
  [i \in 1..Len(entries) |->
     mapOrder(entries[Len(entries) + 1 - i], slaThreshold(slaHours))]

\* mapOrders: one OverdueOrder per raw record, in input order.
mapOrders(entries, slaHours) ==
  [i \in 1..Len(entries) |-> mapOrder(entries[i], slaThreshold(slaHours))]

\* mapWarnings delegates to mapOrders.
mapWarnings(entries, slaHours) == mapOrders(entries, slaHours)

\* mapReadySamples: one ReadySample per raw record; `Sample ${sample_id}`
\* is the last fallback of customId and name.
mapReadySamples(entries) ==
  [i \in 1..Len(entries) |->
     LET item == entries[i]
         fallback == <<"Sample ", item.sample_id>>
     IN  [id        |-> item.sample_id,
          customId  |-> IF item.sample_custom_id # Null /\ item.sample_custom_id[1] # ""
                        THEN <<item.sample_custom_id[1]>>
                        ELSE IF item.sample_name # Null /\ item.sample_name[1] # ""
                        THEN <<item.sample_name[1]>>
                        ELSE fallback,
          name      |-> IF item.sample_name # Null /\ item.sample_name[1] # ""
                        THEN <<item.sample_name[1]>>
                        ELSE fallback,
          orderReference |-> OrElse(item.order_custom_id, "--"),
          customer  |-> OrElse(item.customer_name, "--"),
          completedAt |-> parseNullableDate(item.completed_date),
          testsDone |-> item.tests_ready_count,
          testsTotal |-> item.tests_total_count]]

\* A timeline that reads its first point before mapping (a TypeError on an
\* empty list).
mapTimelineFirstAnchored(entries) ==
  IF entries = <<>> \/ \E i \in 1..Len(entries) : ~parseISO(entries[i].period_start).valid
  THEN [threw |-> TRUE, value |-> <<>>]
  ELSE [threw |-> FALSE,
        value |-> [i \in 1..Len(entries) |->
                     [date  |-> parseISO(entries[i].period_start),
                      label |-> formatDateLabel(parseISO(entries[i].period_start)),
                      overdueOrders |-> entries[i].overdue_orders]]]

\* mapTimeline: one TimelinePoint per raw point, in input order.  format
\* throws a RangeError when parseISO gave Invalid Date, and the exception
\* leaves mapTimeline: the outcome is [threw, value].
mapTimeline(entries) ==
  IF \E i \in 1..Len(entries) : ~parseISO(entries[i].period_start).valid
  THEN [threw |-> TRUE, value |-> <<>>]
  ELSE [threw |-> FALSE,
        value |-> [i \in 1..Len(entries) |->
                     [date  |-> parseISO(entries[i].period_start),
                      label |-> formatDateLabel(parseISO(entries[i].period_start)),
                      overdueOrders |-> entries[i].overdue_orders]]]

\* mapStateBreakdown: label normalized, count and ratio passed through.
mapStateBreakdown(entries) ==
  [i \in 1..Len(entries) |->
     [state |-> toTitleCase(entries[i].state),
      count |-> entries[i].count,
      ratio |-> entries[i].ratio]]

\* Statistics that default an absent value to 0.
mapSlowStatsDefaulted(stats) ==
  [totalOrders           |-> stats.total_orders,
   averageOpenHours      |-> Some(Coalesce(stats.average_open_hours, 0)),
   percentile95OpenHours |-> Some(Coalesce(stats.percentile_95_open_hours, 0)),
   thresholdHours        |-> Some(Coalesce(stats.threshold_hours, 0))]

\* mapSlowReportedOrders, lines 265-270: the statistics as they came.
mapSlowStats(stats) ==
  [totalOrders           |-> stats.total_orders,
   averageOpenHours      |-> stats.average_open_hours,
   percentile95OpenHours |-> stats.percentile_95_open_hours,
   thresholdHours        |-> stats.threshold_hours]

\* Boolean(value) on a nullable boolean.
ToBoolean(value) == value # Null /\ value[1]

\* mapSlowReportedOrders.
mapSlowReportedOrders(response) ==
  [stats  |-> mapSlowStats(response.stats),
   orders |-> [i \in 1..Len(response.items) |->
                 LET item == response.items[i]
                 IN  [id            |-> item.order_id,
                      reference     |-> item.order_reference,
                      customer      |-> OrElse(item.customer_name, "--"),
                      createdAt     |-> parseNullableDate(item.date_created),
                      reportedAt    |-> parseNullableDate(item.date_reported),
                      samplesCount  |-> Coalesce(item.samples_count, 0),
                      testsCount    |-> Coalesce(item.tests_count, 0),
                      openTimeHours |-> Coalesce(item.open_time_hours, 0),
                      openTimeLabel |-> OrElse(item.open_time_label, "--"),
                      isOutlier     |-> ToBoolean(item.is_outlier)]]]

\* ------------------------------------------------------------ mapHeatmap
\* String order of Array.prototype.sort() without comparator: by UTF-16 code
\* units, a proper prefix first.
StrLess(a, b) ==
  \E i \in 1..(Len(a) + 1) :
    /\ i <= Len(b)
    /\ \A j \in 1..(i - 1) : a[j] = b[j]
    /\ (i = Len(a) + 1 \/ a[i] < b[i])

\* Boolean(value) on a string: false for "" only.
Truthy(str) == str # <<>>

\* .filter((value) => Boolean(value)) of line 224.
FilterTruthy(seq) ==
  LET F[i \in 0..Len(seq)] ==
        IF i = 0 THEN <<>>
        ELSE IF Truthy(seq[i]) THEN Append(F[i - 1], seq[i]) ELSE F[i - 1]
  IN  F[Len(seq)]

\* Array.from(new Set(seq)): the distinct values in order of first occurrence.
RECURSIVE ArrayFromSet(_)
ArrayFromSet(seq) ==
  IF seq = <<>> THEN <<>>
  ELSE LET init == ArrayFromSet(SubSeq(seq, 1, Len(seq) - 1))
           x    == seq[Len(seq)]
       IN  IF \E i \in 1..Len(init) : init[i] = x THEN init ELSE Append(init, x)

\* Array.prototype.sort is stable; it is computed here by inserting each
\* element, in input order, after every element that does not have to come
\* after it.  InsertAt puts x behind the first k elements.
InsertAt(sorted, k, x) ==
  SubSeq(sorted, 1, k) \o <<x>> \o SubSeq(sorted, k + 1, Len(sorted))

\* .sort() of line 226, on strings.
SortStrings(seq) ==
  LET S[i \in 0..Len(seq)] ==
        IF i = 0 THEN <<>>
        ELSE InsertAt(S[i - 1],
                      Cardinality({j \in 1..Len(S[i - 1]) : ~StrLess(seq[i], S[i - 1][j])}),
                      seq[i])
  IN  S[Len(seq)]

\* mapHeatmap, lines 220-226: the period axis.
heatmapPeriods(entries) ==
  SortStrings(ArrayFromSet(FilterTruthy(
    [i \in 1..Len(entries) |-> entries[i].period_start])))

\* An assignment that keeps a value already stored under the key.
SetKeyIfAbsent(obj, key, value) ==
  [k \in (DOMAIN obj) \cup {key} |-> IF k \in DOMAIN obj THEN obj[k] ELSE value]

\* obj[key] = value on a Record<string, number>.
SetKey(obj, key, value) ==
  [k \in (DOMAIN obj) \cup {key} |-> IF k = key THEN value ELSE obj[k]]

EmptyObject == [k \in {} |-> 0]

\* A display name that falls back to "--" like the other mappers do.
heatmapCustomerNameDashes(item) == OrElse(item.customer_name, "--")

\* mapHeatmap, line 231: item.customer_name || 'Unknown'.
heatmapCustomerName(item) == OrElse(item.customer_name, "Unknown")

\* An accumulation whose total follows the mapping: a repeated period
\* replaces its earlier count in the total as well.
heatmapAccumulateReplacing(customer, item) ==
  [customerName |-> customer.customerName,
   data  |-> SetKey(customer.data, item.period_start, item.overdue_orders),
   total |-> IF item.period_start \in DOMAIN customer.data
             THEN customer.total - customer.data[item.period_start]
                    + item.overdue_orders
             ELSE customer.total + item.overdue_orders]

\* An accumulation that assigns the count to total instead of adding it.
heatmapAccumulateLastCount(customer, item) ==
  [customerName |-> customer.customerName,
   data  |-> SetKey(customer.data, item.period_start, item.overdue_orders),
   total |-> item.overdue_orders]

\* mapHeatmap, lines 242-244: the mapping takes the count of this triple for
\* its period, the total grows by it.
heatmapAccumulate(customer, item) ==
  [customerName |-> customer.customerName,
   data  |-> SetKey(customer.data, item.period_start, item.overdue_orders),
   total |-> customer.total + item.overdue_orders]

\* mapHeatmap, lines 228-245: the Map of customers after the loop, as the
\* sequence of its values in insertion order (the key is the display name).
RECURSIVE heatmapCustomersMap(_)
heatmapCustomersMap(entries) ==
  IF entries = <<>> THEN <<>>
  ELSE LET map0 == heatmapCustomersMap(SubSeq(entries, 1, Len(entries) - 1))
           item == entries[Len(entries)]
           customerName == heatmapCustomerName(item)
           map1 == IF \E i \in 1..Len(map0) : map0[i].customerName = customerName
                   THEN map0
                   ELSE Append(map0, [customerName |-> customerName,
                                      data |-> EmptyObject, total |-> 0])
           idx  == CHOOSE i \in 1..Len(map1) : map1[i].customerName = customerName
       IN  [map1 EXCEPT ![idx] = heatmapAccumulate(map1[idx], item)]

\* The comparator (a, b) => b.total - a.total puts a before b iff
\* a.total > b.total.
ByTotalDesc(a, b) == a.total > b.total

\* A sort by descending total that puts a row before the rows it ties with.
SortByTotalDescUnstable(seq) ==
  LET S[i \in 0..Len(seq)] ==
        IF i = 0 THEN <<>>
        ELSE InsertAt(S[i - 1],
                      Cardinality({j \in 1..Len(S[i - 1]) : ByTotalDesc(S[i - 1][j], seq[i])}),
                      seq[i])
  IN  S[Len(seq)]

\* .sort((a, b) => b.total - a.total) of line 247.
SortByTotalDesc(seq) ==
  LET S[i \in 0..Len(seq)] ==
        IF i = 0 THEN <<>>
        ELSE InsertAt(S[i - 1],
                      Cardinality({j \in 1..Len(S[i - 1]) : ~ByTotalDesc(seq[i], S[i - 1][j])}),
                      seq[i])
  IN  S[Len(seq)]

mapHeatmap(entries) ==
  IF Len(entries) = 0
  THEN [periods |-> <<>>, customers |-> <<>>]
  ELSE [periods   |-> heatmapPeriods(entries),
        customers |-> SortByTotalDesc(heatmapCustomersMap(entries))]

\* ------------------------------------------- calls of the pure functions
\* All sequences over S of length at most n.
SeqUpTo(S, n) == UNION {[1..k -> S] : k \in 0..n}

\* Longest raw order list handed to mapOrders.
MaxOrders == 2

\* Longest list of heatmap triples handed to mapHeatmap.
MaxTriples == 3

OpenHoursValues == {Fin(0), Fin(120), Fin(130)}

SlaHoursValues ==
  {Fin(0), Fin(120), NaN, POSITIVE_INFINITY, NEGATIVE_INFINITY, Undefined}

\* "2024-01-01" and "in_progress" as code units.
Date_2024_01_01 == <<50, 48, 50, 52, 45, 48, 49, 45, 48, 49>>

Label_in_progress == <<105, 110, 95, 112, 114, 111, 103, 114, 101, 115, 115>>

RawOrders ==
  { [order_id |-> 7, custom_formatted_id |-> ref, customer_name |-> Null,
     state |-> Some(Label_in_progress), date_created |-> Some(Date_2024_01_01),
     open_hours |-> h, total_samples |-> Null,
     incomplete_sample_count |-> Null, incomplete_samples |-> Null] :
      ref \in {Null, Some("ORD-7")}, h \in OpenHoursValues }

\* Period keys as code-unit sequences: "", "10", "2".
PeriodKeys == {<<>>, <<49, 48>>, <<50>>}

CustomerNames == {Null, Some("Acme"), Some("Beta"), Some("Unknown")}

OverdueCounts == {0, 1, 2}

\* Triples of every name, period and count; a customer literally named
\* "Unknown" (grouped with the triples without name) comes with one period
\* and one count.
HeatmapTriples ==
  { t \in [customer_name : CustomerNames, period_start : PeriodKeys,
           overdue_orders : OverdueCounts] :
      t.customer_name = Some("Unknown")
        => (t.period_start = <<50>> /\ t.overdue_orders = 1) }

NoController == state = initialState /\ cycles = <<>> /\ filters = 1 /\ NoViews

InitOrders ==
  /\ NoController
  /\ call \in { Some([fn |-> "mapOrders", entries |-> e, slaHours |-> t]) :
                  e \in SeqUpTo(RawOrders, MaxOrders), t \in SlaHoursValues }
  /\ ret = Null

CallMapOrders ==
  /\ call # Null /\ call[1].fn = "mapOrders" /\ ret = Null
  /\ ret' = Some(mapOrders(call[1].entries, call[1].slaHours))
  /\ UNCHANGED <<state, cycles, filters, call, views>>

NextOrders == CallMapOrders

SpecOrders == InitOrders /\ [][NextOrders]_vars

InitHeatmap ==
  /\ NoController
  /\ call \in { Some([fn |-> "mapHeatmap", entries |-> e]) :
                  e \in SeqUpTo(HeatmapTriples, MaxTriples) }
  /\ ret = Null

CallMapHeatmap ==
  /\ call # Null /\ call[1].fn = "mapHeatmap" /\ ret = Null
  /\ ret' = Some(mapHeatmap(call[1].entries))
  /\ UNCHANGED <<state, cycles, filters, call, views>>

NextHeatmap == CallMapHeatmap

SpecHeatmap == InitHeatmap /\ [][NextHeatmap]_vars

\* ===================================================== projection claims
Returned(fn) == call # Null /\ call[1].fn = fn /\ ret # Null

\* C9 (SLA breach): for every raw order and threshold T, slaBreached is true
\* when T is finite and openHours > T, false when T is finite and
\* openHours <= T, and false for every non-finite T (NaN, infinite, absent).
C9_SlaBreach ==
  Returned("mapOrders") =>
    /\ Len(ret[1]) = Len(call[1].entries)
    /\ \A i \in 1..Len(call[1].entries) :
         LET T == call[1].slaHours
             h == call[1].entries[i].open_hours.v
         IN  /\ (T.k = "fin" /\ h > T.v)  => ret[1][i].slaBreached = TRUE
             /\ (T.k = "fin" /\ h <= T.v) => ret[1][i].slaBreached = FALSE
             /\ (T.k # "fin")             => ret[1][i].slaBreached = FALSE

\* Order 7 without reference, open 130 hours, SLA 120: breached, "Order 7";
\* next to an order that is not breached.
C9_Witness ==
  /\ Returned("mapOrders")
  /\ call[1].slaHours = Fin(120)
  /\ \E i, j \in 1..Len(ret[1]) :
       /\ call[1].entries[i].open_hours = Fin(130)
       /\ call[1].entries[i].custom_formatted_id = Null
       /\ ret[1][i].slaBreached /\ ret[1][i].reference = <<"Order ", 7>>
       /\ call[1].entries[j].open_hours = Fin(120)
       /\ ~ret[1][j].slaBreached

\* periods lists exactly the keys of P, once each, in ascending string order.
IsSortedAxisOf(periods, P) ==
  /\ {periods[i] : i \in 1..Len(periods)} = P
  /\ Len(periods) = Cardinality(P)
  /\ \A i, j \in 1..Len(periods) : i < j => StrLess(periods[i], periods[j])

\* C10 (period axis): periods is the ascending, deduplicated sequence of all
\* period_start values of the input, the empty input included.  The filter
\* of line 224 drops an empty period_start from the axis, so this fails for
\* an input that holds one.
C10_PeriodAxisAll ==
  Returned("mapHeatmap") =>
    IsSortedAxisOf(ret[1].periods,
                   {call[1].entries[i].period_start : i \in 1..Len(call[1].entries)})

\* ---------------------------------------------------- heatmap rows
HeatmapIn == call[1].entries

HeatmapOut == ret[1]

\* The display name of a triple, as section 4.3 defines the grouping.
DisplayNameOf(item) ==
  IF item.customer_name = Null \/ item.customer_name = Some("")
  THEN "Unknown" ELSE item.customer_name[1]

\* The positions of the input triples of the group called name.
GroupOf(name) == {i \in 1..Len(HeatmapIn) : DisplayNameOf(HeatmapIn[i]) = name}

\* The sum of overdue_orders over the triples at the positions in idx.
RECURSIVE SumCounts(_)
SumCounts(idx) ==
  IF idx = {} THEN 0
  ELSE LET i == CHOOSE x \in idx : TRUE
       IN  HeatmapIn[i].overdue_orders + SumCounts(idx \ {i})

FirstSeen(name) == CHOOSE i \in GroupOf(name) : \A j \in GroupOf(name) : i <= j

Rows == 1..Len(HeatmapOut.customers)

\* C11 (key invariant): every period key of any customer's data mapping is
\* an element of the top-level periods sequence.
C11_KeysInPeriods ==
  Returned("mapHeatmap") =>
    \A r \in Rows : \A k \in DOMAIN HeatmapOut.customers[r].data :
      \E i \in 1..Len(HeatmapOut.periods) : HeatmapOut.periods[i] = k

\* C12 (customer ordering): customers is sorted by descending total, and two
\* customers with equal totals appear in the order of their first triple.
C12_CustomerOrder ==
  Returned("mapHeatmap") =>
    \A r, q \in Rows :
      r < q =>
        \/ HeatmapOut.customers[r].total > HeatmapOut.customers[q].total
        \/ /\ HeatmapOut.customers[r].total = HeatmapOut.customers[q].total
           /\ FirstSeen(HeatmapOut.customers[r].customerName)
                < FirstSeen(HeatmapOut.customers[q].customerName)

\* Three rows: the row met last leads, the two others tie and keep their
\* encounter order.
C12_Witness ==
  /\ Returned("mapHeatmap")
  /\ Len(HeatmapOut.customers) = 3
  /\ HeatmapOut.customers[1].total > HeatmapOut.customers[2].total
  /\ HeatmapOut.customers[2].total = HeatmapOut.customers[3].total
  /\ FirstSeen(HeatmapOut.customers[1].customerName) = 3
  /\ FirstSeen(HeatmapOut.customers[2].customerName) = 1

\* C13 (running total): every row's total is the sum of overdue_orders over
\* all input triples of its group, repeated periods included, whatever the
\* order of the input.
C13_RunningTotal ==
  Returned("mapHeatmap") =>
    \A r \in Rows :
      HeatmapOut.customers[r].total
        = SumCounts(GroupOf(HeatmapOut.customers[r].customerName))

\* A group that repeats a period: the total counts both triples, the mapping
\* keeps one of them.
C13_Witness ==
  /\ Returned("mapHeatmap")
  /\ \E r \in Rows, i, j \in 1..Len(HeatmapIn) :
       /\ i < j
       /\ {i, j} \subseteq GroupOf(HeatmapOut.customers[r].customerName)
       /\ HeatmapIn[i].period_start = HeatmapIn[j].period_start
       /\ HeatmapOut.customers[r].total
            > HeatmapOut.customers[r].data[HeatmapIn[i].period_start]

\* C14 (Unknown bucket): every triple without customer_name is accumulated
\* into the row named "Unknown" (its period is in that row's mapping and its
\* count in that row's total), and there is exactly one row per distinct
\* display name.
C14_UnknownBucket ==
  Returned("mapHeatmap") =>
    /\ \A r, q \in Rows :
         HeatmapOut.customers[r].customerName = HeatmapOut.customers[q].customerName
           => r = q
    /\ {HeatmapOut.customers[r].customerName : r \in Rows}
         = {DisplayNameOf(HeatmapIn[i]) : i \in 1..Len(HeatmapIn)}
    /\ \A i \in 1..Len(HeatmapIn) :
         HeatmapIn[i].customer_name = Null =>
           \E r \in Rows :
             /\ HeatmapOut.customers[r].customerName = "Unknown"
             /\ HeatmapIn[i].period_start \in DOMAIN HeatmapOut.customers[r].data
             /\ HeatmapOut.customers[r].total = SumCounts(GroupOf("Unknown"))

\* A triple without name, a triple named "Unknown" and another customer: two
\* rows, the first two triples in one.
C14_Witness ==
  /\ Returned("mapHeatmap")
  /\ Len(HeatmapIn) = 3
  /\ \E i, j \in 1..3 :
       /\ HeatmapIn[i].customer_name = Null
       /\ HeatmapIn[j].customer_name = Some("Unknown")
  /\ Len(HeatmapOut.customers) = 2
  /\ \E r \in Rows :
       /\ HeatmapOut.customers[r].customerName = "Unknown"
       /\ Cardinality(GroupOf("Unknown")) = 2

\* The position of the last triple of the group called name whose period
\* is key.
LastWrite(name, key) ==
  CHOOSE i \in GroupOf(name) :
    /\ HeatmapIn[i].period_start = key
    /\ \A j \in GroupOf(name) : HeatmapIn[j].period_start = key => j <= i

\* Some group holds two triples with the same period.
RepeatsPeriod(name) ==
  \E i, j \in GroupOf(name) :
    i # j /\ HeatmapIn[i].period_start = HeatmapIn[j].period_start

\* The sum of the counts a data mapping holds.
RECURSIVE SumData(_)
SumData(data) ==
  IF DOMAIN data = {} THEN 0
  ELSE LET k == CHOOSE x \in DOMAIN data : TRUE
       IN  data[k] + SumData([x \in (DOMAIN data) \ {k} |-> data[x]])

\* C23 (duplicate triples): mapHeatmap returns for inputs that repeat a
\* (customer, period) pair, and every count of a row's mapping is the count
\* of the last triple of that customer and period in input order.
C23_LastWriteWins ==
  Returned("mapHeatmap") =>
    \A r \in Rows :
      LET row == HeatmapOut.customers[r]
      IN  /\ DOMAIN row.data
               = {HeatmapIn[i].period_start : i \in GroupOf(row.customerName)}
          /\ \A k \in DOMAIN row.data :
               row.data[k] = HeatmapIn[LastWrite(row.customerName, k)].overdue_orders

\* Acme twice in the same period, first with 2 and then with 1: the mapping
\* holds 1.
C23_Witness ==
  /\ Returned("mapHeatmap")
  /\ \E i, j \in 1..Len(HeatmapIn) :
       /\ i < j
       /\ HeatmapIn[i].customer_name = Some("Acme")
       /\ HeatmapIn[j].customer_name = Some("Acme")
       /\ HeatmapIn[i].period_start = <<50>>
       /\ HeatmapIn[j].period_start = <<50>>
       /\ HeatmapIn[i].overdue_orders = 2
       /\ HeatmapIn[j].overdue_orders = 1
       /\ \A k \in (j + 1)..Len(HeatmapIn) : HeatmapIn[k].customer_name # Some("Acme")
  /\ \E r \in Rows :
       /\ HeatmapOut.customers[r].customerName = "Acme"
       /\ HeatmapOut.customers[r].data[<<50>>] = 1

\* C24 as stated (total against the mapping): for every customer row, total
\* equals the sum of the counts of the row's data mapping.
C24_TotalIsMappingSumAll ==
  Returned("mapHeatmap") =>
    \A r \in Rows :
      HeatmapOut.customers[r].total = SumData(HeatmapOut.customers[r].data)

\* C24 (total against the mapping, amended): for every customer row whose
\* group repeats no period, total equals the sum of the counts of the row's
\* data mapping; for every row, also one whose group repeats a period,
\* total is the sum of overdue_orders over all the group's triples.
C24_TotalIsMappingSum ==
  Returned("mapHeatmap") =>
    \A r \in Rows :
      LET row == HeatmapOut.customers[r]
      IN  /\ ~RepeatsPeriod(row.customerName) => row.total = SumData(row.data)
          /\ row.total = SumCounts(GroupOf(row.customerName))

\* A row built from two different periods: total 3 = 1 + 2.
C24_Witness ==
  /\ Returned("mapHeatmap")
  /\ \E r \in Rows :
       /\ ~RepeatsPeriod(HeatmapOut.customers[r].customerName)
       /\ Cardinality(DOMAIN HeatmapOut.customers[r].data) = 2
       /\ HeatmapOut.customers[r].total = 3
       /\ SumData(HeatmapOut.customers[r].data) = 3

\* ------------------------------------------------------ label normalization
\* Longest label handed to toTitleCase.
MaxLabelLen == 3

LabelUnits == {32, 95, 83, 115, 223}

Labels == {Null} \cup {Some(str) : str \in SeqUpTo(LabelUnits, MaxLabelLen)}

InitTitleCase ==
  /\ NoController
  /\ call \in { Some([fn |-> "toTitleCase", value |-> v]) : v \in Labels }
  /\ ret = Null

\* toTitleCase(value); ret lists the results of the successive applications.
CallToTitleCase ==
  /\ call # Null /\ call[1].fn = "toTitleCase" /\ ret = Null
  /\ ret' = Some(<<toTitleCase(call[1].value)>>)
  /\ UNCHANGED <<state, cycles, filters, call, views>>

\* toTitleCase applied to the label it returned.
CallToTitleCaseAgain ==
  /\ call # Null /\ call[1].fn = "toTitleCase" /\ ret # Null /\ Len(ret[1]) = 1
  /\ ret' = Some(Append(ret[1], toTitleCase(Some(ret[1][1]))))
  /\ UNCHANGED <<state, cycles, filters, call, views>>

NextTitleCase == CallToTitleCase \/ CallToTitleCaseAgain

SpecTitleCase == InitTitleCase /\ [][NextTitleCase]_vars

NormalizedTwice == Returned("toTitleCase") /\ Len(ret[1]) = 2

IsAscii(value) == value = Null \/ \A i \in 1..Len(value[1]) : value[1][i] < 128

\* C16 as stated (idempotence): for every input s, absent and empty included,
\* toTitleCase(toTitleCase(s)) = toTitleCase(s).
C16_IdempotentAll == NormalizedTwice => ret[1][2] = ret[1][1]

\* C16 as amended (idempotence): for every absent, empty or ASCII-only input
\* s, toTitleCase(toTitleCase(s)) = toTitleCase(s).
C16_Idempotent ==
  (NormalizedTwice /\ IsAscii(call[1].value)) => ret[1][2] = ret[1][1]

\* "S_s" gives "S S", and normalizing "S S" gives "S S" again.
C16_Witness ==
  /\ NormalizedTwice
  /\ call[1].value = Some(<<83, 95, 115>>)
  /\ ret[1][1] = <<83, 32, 83>>
  /\ ret[1][2] = <<83, 32, 83>>

\* ------------------------------------------------------ test identifiers
\* Longest test list of a raw incomplete sample.
MaxTests == 2

TestIdLists == {Null, Some(<<>>), Some(<<5>>), Some(<<5, 5>>), Some(<<6, 5>>)}

RawTests ==
  { [primary_test_id |-> 9, test_ids |-> ids, label_abbr |-> Null,
     states |-> st] :
      ids \in TestIdLists, st \in {Null, Some(<<Label_in_progress>>)} }

RawSampleWith(tests) ==
  [sample_id |-> 3, sample_custom_id |-> Null, sample_name |-> Null,
   matrix_type |-> Null, total_tests |-> Null, incomplete_tests |-> Null,
   tests |-> Some(tests)]

RawOrderWith(samples) ==
  [order_id |-> 7, custom_formatted_id |-> Null, customer_name |-> Null,
   state |-> Null, date_created |-> Null, open_hours |-> Fin(130),
   total_samples |-> Null, incomplete_sample_count |-> Null,
   incomplete_samples |-> Some(samples)]

InitTestIds ==
  /\ NoController
  /\ call \in { Some([fn |-> "mapOrders",
                      entries |-> <<RawOrderWith(<<RawSampleWith(ts)>>)>>,
                      slaHours |-> Fin(120)]) :
                  ts \in SeqUpTo(RawTests, MaxTests) }
  /\ ret = Null

SpecTestIds == InitTestIds /\ [][NextOrders]_vars

RawTestsIn == call[1].entries[1].incomplete_samples[1][1].tests[1]

TestsOut == ret[1][1].samples[1].tests

\* C17 (test ids): with a non-empty test_ids list testIds is that list as it
\* is (order and duplicates kept); otherwise it is the one-element sequence
\* of primary_test_id; testIds is never empty.
C17_TestIds ==
  Returned("mapOrders") =>
    /\ Len(ret[1]) = 1 /\ Len(ret[1][1].samples) = 1
    /\ Len(TestsOut) = Len(RawTestsIn)
    /\ \A i \in 1..Len(RawTestsIn) :
         /\ (RawTestsIn[i].test_ids # Null /\ RawTestsIn[i].test_ids[1] # <<>>)
              => TestsOut[i].testIds = RawTestsIn[i].test_ids[1]
         /\ (RawTestsIn[i].test_ids = Null \/ RawTestsIn[i].test_ids = Some(<<>>))
              => TestsOut[i].testIds = <<RawTestsIn[i].primary_test_id>>
         /\ Len(TestsOut[i].testIds) >= 1

\* A test with the list [5, 5], kept with its duplicate, next to a test with
\* an empty list, which falls back to the primary id 9.
C17_Witness ==
  /\ Returned("mapOrders")
  /\ Len(ret[1]) = 1 /\ Len(ret[1][1].samples) = 1
  /\ Len(TestsOut) = 2
  /\ RawTestsIn[1].test_ids = Some(<<5, 5>>) /\ TestsOut[1].testIds = <<5, 5>>
  /\ RawTestsIn[2].test_ids = Some(<<>>) /\ TestsOut[2].testIds = <<9>>

\* ------------------------------------------------------- the projectors
\* Longest raw list handed to a projector.
MaxEntries == 2

Date_2024_01_08 == <<50, 48, 50, 52, 45, 48, 49, 45, 48, 56>>

\* "2024-13-01": no such month.
Date_2024_13_01 == <<50, 48, 50, 52, 45, 49, 51, 45, 48, 49>>

RawReadySamples ==
  { [sample_id |-> 3, sample_custom_id |-> cid, sample_name |-> nm,
     order_custom_id |-> Null, customer_name |-> Null,
     completed_date |-> Some(Date_2024_01_01),
     tests_ready_count |-> 1, tests_total_count |-> 2] :
      cid \in {Null, Some("S-3")}, nm \in {Null, Some("Flower")} }

RawTimeline ==
  { [period_start |-> p, overdue_orders |-> n] :
      p \in {Date_2024_01_01, Date_2024_01_08, Date_2024_13_01}, n \in {2, 5} }

RawStateBreakdown ==
  { [state |-> st, count |-> 4, ratio |-> 1] :
      st \in {Null, Some(Label_in_progress), Some(<<223>>)} }

NullableHours == {Null, Some(0), Some(48)}

RawSlowStats ==
  { [total_orders |-> 2, average_open_hours |-> a,
     percentile_95_open_hours |-> q, threshold_hours |-> t] :
      a \in NullableHours, q \in NullableHours, t \in NullableHours }

RawSlowItems ==
  { [order_id |-> 7, order_reference |-> "ORD-7", customer_name |-> Null,
     date_created |-> Some(Date_2024_01_01), date_reported |-> Null,
     samples_count |-> sc, tests_count |-> tc, open_time_hours |-> oh,
     open_time_label |-> Some("1 d 6 h"), is_outlier |-> Some(TRUE)] :
      sc \in {Null, Some(2)}, tc \in {Null, Some(4)}, oh \in {Null, Some(30)} }

InitProjectors ==
  /\ NoController
  /\ ret = Null
  /\ \/ call \in { Some([fn |-> "mapOrders", entries |-> e, slaHours |-> Fin(120)]) :
                     e \in SeqUpTo(RawOrders, MaxEntries) }
     \/ call \in { Some([fn |-> "mapWarnings", entries |-> e, slaHours |-> Fin(120)]) :
                     e \in SeqUpTo(RawOrders, MaxEntries) }
     \/ call \in { Some([fn |-> "mapReadySamples", entries |-> e]) :
                     e \in SeqUpTo(RawReadySamples, MaxEntries) }
     \/ call \in { Some([fn |-> "mapTimeline", entries |-> e]) :
                     e \in SeqUpTo(RawTimeline, MaxEntries) }
     \/ call \in { Some([fn |-> "mapStateBreakdown", entries |-> e]) :
                     e \in SeqUpTo(RawStateBreakdown, MaxEntries) }
     \/ call \in { Some([fn |-> "mapHeatmap", entries |-> e]) :
                     e \in SeqUpTo(HeatmapTriples, MaxEntries - 1) }
     \/ call \in { Some([fn |-> "mapSlowReportedOrders",
                         entries |-> [stats |-> st, items |-> e]]) :
                     st \in RawSlowStats, e \in SeqUpTo(RawSlowItems, MaxEntries) }

Calling(fn) == call # Null /\ call[1].fn = fn /\ ret = Null

CallMapWarnings ==
  /\ Calling("mapWarnings")
  /\ ret' = Some(mapWarnings(call[1].entries, call[1].slaHours))
  /\ UNCHANGED <<state, cycles, filters, call, views>>

CallMapReadySamples ==
  /\ Calling("mapReadySamples")
  /\ ret' = Some(mapReadySamples(call[1].entries))
  /\ UNCHANGED <<state, cycles, filters, call, views>>

CallMapTimeline ==
  /\ Calling("mapTimeline")
  /\ ret' = Some(mapTimeline(call[1].entries))
  /\ UNCHANGED <<state, cycles, filters, call, views>>

CallMapStateBreakdown ==
  /\ Calling("mapStateBreakdown")
  /\ ret' = Some(mapStateBreakdown(call[1].entries))
  /\ UNCHANGED <<state, cycles, filters, call, views>>

CallMapSlowReportedOrders ==
  /\ Calling("mapSlowReportedOrders")
  /\ ret' = Some(mapSlowReportedOrders(call[1].entries))
  /\ UNCHANGED <<state, cycles, filters, call, views>>

NextProjectors ==
  \/ CallMapOrders
  \/ CallMapWarnings
  \/ CallMapReadySamples
  \/ CallMapTimeline
  \/ CallMapStateBreakdown
  \/ CallMapHeatmap
  \/ CallMapSlowReportedOrders

SpecProjectors == InitProjectors /\ [][NextProjectors]_vars

ListProjectors == {"mapOrders", "mapWarnings", "mapReadySamples", "mapStateBreakdown"}

\* C15 (empty input): on an empty raw list every projector returns an empty
\* sequence, mapHeatmap returns {periods: [], customers: []}, and none of
\* them raises an error.
C15_EmptyDefaults ==
  (call # Null /\ ret # Null) =>
    /\ (call[1].fn \in ListProjectors /\ call[1].entries = <<>>)
         => (ret[1] = <<>> /\ Len(ret[1]) = 0)
    /\ (call[1].fn = "mapTimeline" /\ call[1].entries = <<>>)
         => (ret[1].threw = FALSE /\ ret[1].value = <<>>)
    /\ (call[1].fn = "mapHeatmap" /\ call[1].entries = <<>>)
         => (ret[1].periods = <<>> /\ ret[1].customers = <<>>)
    /\ (call[1].fn = "mapSlowReportedOrders" /\ call[1].entries.items = <<>>)
         => ret[1].orders = <<>>

\* mapTimeline returned for the empty list.
C15_Witness ==
  /\ Returned("mapTimeline")
  /\ call[1].entries = <<>>
  /\ ret[1] = [threw |-> FALSE, value |-> <<>>]

\* C18 (slow-order statistics): averageOpenHours, percentile95OpenHours and
\* thresholdHours equal the upstream values, an absent one stays absent and
\* a 0 stays 0; absent samples_count, tests_count and open_time_hours of an
\* item become 0.
C18_SlowStats ==
  Returned("mapSlowReportedOrders") =>
    LET in == call[1].entries
        out == ret[1]
    IN  /\ out.stats.averageOpenHours = in.stats.average_open_hours
        /\ out.stats.percentile95OpenHours = in.stats.percentile_95_open_hours
        /\ out.stats.thresholdHours = in.stats.threshold_hours
        /\ Len(out.orders) = Len(in.items)
        /\ \A i \in 1..Len(in.items) :
             /\ out.orders[i].samplesCount
                  = IF in.items[i].samples_count = Null THEN 0
                    ELSE in.items[i].samples_count[1]
             /\ out.orders[i].testsCount
                  = IF in.items[i].tests_count = Null THEN 0
                    ELSE in.items[i].tests_count[1]
             /\ out.orders[i].openTimeHours
                  = IF in.items[i].open_time_hours = Null THEN 0
                    ELSE in.items[i].open_time_hours[1]

\* An absent average next to a percentile of 0, and an item without counts.
C18_Witness ==
  /\ Returned("mapSlowReportedOrders")
  /\ call[1].entries.stats.average_open_hours = Null
  /\ ret[1].stats.averageOpenHours = Null
  /\ ret[1].stats.percentile95OpenHours = Some(0)
  /\ ret[1].stats.thresholdHours = Some(48)
  /\ \E i \in 1..Len(ret[1].orders) :
       /\ call[1].entries.items[i].samples_count = Null
       /\ call[1].entries.items[i].open_time_hours = Null
       /\ ret[1].orders[i].samplesCount = 0
       /\ ret[1].orders[i].openTimeHours = 0

\* ---------------------------------------------------------- buildUrl calls
\* Most entries of a parameter object.
MaxParams == 2

ParamKeys == {K_date_from, K_customer_query, K_limit}

QueryValues ==
  { JsNull, JsUndefined, JsString(<<>>), JsString(<<110, 117, 108, 108>>),
    JsString(<<97, 99, 109, 101, 32, 99, 111>>), JsString(<<97, 38, 98, 61, 99>>),
    JsNumber(0), JsNumber(25), JsBoolean(FALSE), JsBoolean(TRUE) }

\* Objects: no key twice.
ParamObjects ==
  { ps \in SeqUpTo([key : ParamKeys, value : QueryValues], MaxParams) :
      \A i, j \in 1..Len(ps) : ps[i].key = ps[j].key => i = j }

ApiBaseUrls == {DEFAULT_API_BASE_URL, DEFAULT_API_BASE_URL \o <<47>>}

SlowFilters ==
  { [dateFrom |-> JsString(df), dateTo |-> JsString(Date_2024_01_08),
     slowCustomerQuery |-> q, slowMinOpenHours |-> h,
     slowThresholdHours |-> JsNumber(120)] :
      df \in {<<>>, Date_2024_01_01},
      q \in {JsUndefined, JsString(<<>>), JsString(<<97, 99, 109, 101, 32, 99, 111>>)},
      h \in {JsUndefined, JsNumber(0), JsNumber(72)} }

InitUrl ==
  /\ NoController
  /\ ret = Null
  /\ \/ call \in { Some([fn |-> "buildUrl", apiBaseUrl |-> b, path |-> p, params |-> ps]) :
                     b \in ApiBaseUrls,
                     p \in {OVERDUE_PATH, Tail(OVERDUE_PATH)},
                     ps \in {Null} \cup {Some(o) : o \in ParamObjects} }
     \/ call \in { Some([fn |-> "slowestUrl", apiBaseUrl |-> b, filters |-> f]) :
                     b \in ApiBaseUrls, f \in SlowFilters }

CallBuildUrl ==
  /\ Calling("buildUrl")
  /\ ret' = Some(buildUrl(call[1].apiBaseUrl, call[1].path, call[1].params))
  /\ UNCHANGED <<state, cycles, filters, call, views>>

\* The URL apiFetch builds for the slow-orders request of a cycle.
CallSlowestUrl ==
  /\ Calling("slowestUrl")
  /\ ret' = Some(buildUrl(call[1].apiBaseUrl, SLOWEST_PATH,
                          Some(slowestParams(call[1].filters))))
  /\ UNCHANGED <<state, cycles, filters, call, views>>

NextUrl == CallBuildUrl \/ CallSlowestUrl

SpecUrl == InitUrl /\ [][NextUrl]_vars

\* Reading a URL back: the text after the first ?, split at &, each piece
\* split at its first = and form-decoded.
RECURSIVE IndexFrom(_, _, _)
IndexFrom(str, c, i) ==
  IF i > Len(str) THEN 0 ELSE IF str[i] = c THEN i ELSE IndexFrom(str, c, i + 1)

IndexOf(str, c) == IndexFrom(str, c, 1)

RECURSIVE SplitOn(_, _)
SplitOn(str, c) ==
  LET i == IndexOf(str, c)
  IN  IF i = 0 THEN <<str>>
      ELSE <<SubSeq(str, 1, i - 1)>> \o SplitOn(SubSeq(str, i + 1, Len(str)), c)

HexValue(d) == IF d <= 57 THEN d - 48 ELSE d - 55

RECURSIVE urldecode(_)
urldecode(str) ==
  IF str = <<>> THEN <<>>
  ELSE IF str[1] = 43 THEN <<32>> \o urldecode(Tail(str))
  ELSE IF str[1] = 37
  THEN <<16 * HexValue(str[2]) + HexValue(str[3])>> \o urldecode(SubSeq(str, 4, Len(str)))
  ELSE <<str[1]>> \o urldecode(Tail(str))

QueryOf(url) ==
  LET i == IndexOf(url, 63)
  IN  IF i = 0 THEN <<>> ELSE SubSeq(url, i + 1, Len(url))

SentParams(url) ==
  LET query == QueryOf(url)
      pieces == SplitOn(query, 38)
  IN  IF query = <<>> THEN <<>>
      ELSE [i \in 1..Len(pieces) |->
              LET eq == IndexOf(pieces[i], 61)
              IN  [key   |-> urldecode(SubSeq(pieces[i], 1, eq - 1)),
                   value |-> urldecode(SubSeq(pieces[i], eq + 1, Len(pieces[i])))]]

\* The parameter object the call gave to buildUrl.
GivenParams ==
  IF call[1].fn = "slowestUrl" THEN slowestParams(call[1].filters)
  ELSE IF call[1].params = Null THEN <<>> ELSE call[1].params[1]

Absent(value) == value.t \in {"null", "undefined"} \/ (value.t = "string" /\ value.v = <<>>)

TimesSent(sent, key) ==
  Cardinality({i \in 1..Len(sent) : sent[i].key = key})

\* C19 (query-parameter omission): a parameter whose value is null,
\* undefined or '' does not appear in the URL (so never as "null" or
\* "undefined"); every other parameter appears exactly once, with the text
\* of its value; nothing else is sent; the slow-orders request carries
\* customer_query only for a non-empty slowCustomerQuery.
C19_QueryOmission ==
  (Returned("buildUrl") \/ Returned("slowestUrl")) =>
    LET given == GivenParams
        sent == SentParams(ret[1])
    IN  /\ \A i \in 1..Len(given) :
             IF Absent(given[i].value)
             THEN TimesSent(sent, given[i].key) = 0
             ELSE /\ TimesSent(sent, given[i].key) = 1
                  /\ \E k \in 1..Len(sent) :
                       /\ sent[k].key = given[i].key
                       /\ sent[k].value = String(given[i].value)
        /\ Len(sent) = Cardinality({i \in 1..Len(given) : ~Absent(given[i].value)})
        /\ Returned("slowestUrl") =>
             /\ TimesSent(sent, K_customer_query)
                  = IF Absent(call[1].filters.slowCustomerQuery) THEN 0 ELSE 1
             /\ TimesSent(sent, K_limit) = 1

\* A null parameter next to one with reserved characters: only the second
\* is in the URL.
C19_Witness ==
  /\ Returned("buildUrl")
  /\ call[1].params # Null
  /\ Len(call[1].params[1]) = 2
  /\ call[1].params[1][1].value = JsNull
  /\ call[1].params[1][2] = [key |-> K_customer_query, value |-> JsString(<<97, 38, 98, 61, 99>>)]
  /\ SentParams(ret[1]) = << [key |-> K_customer_query, value |-> <<97, 38, 98, 61, 99>>] >>
  /\ QueryOf(ret[1]) = <<99, 117, 115, 116, 111, 109, 101, 114, 95, 113, 117, 101, 114, 121, 61, 97, 37, 50, 54, 98, 37, 51, 68, 99>>

\* ----------------------------------------------------------- apiFetch calls
STATUS_200 == <<79, 75>>

STATUS_404 == <<78, 111, 116, 32, 70, 111, 117, 110, 100>>

\* Status codes with their phrases; over HTTP/2 the phrase is empty.
StatusLines ==
  { [status |-> 200, statusText |-> STATUS_200],
    [status |-> 204, statusText |-> <<>>],
    [status |-> 304, statusText |-> <<>>],
    [status |-> 404, statusText |-> STATUS_404],
    [status |-> 422, statusText |-> STATUS_422],
    [status |-> 422, statusText |-> <<>>],
    [status |-> 500, statusText |-> STATUS_500],
    [status |-> 500, statusText |-> <<>>] }

Bodies ==
  { NotJson, JsonBody(JsNull), JsonBody(JsString(STATUS_500)),
    JsonBody(JsonObject(Null)), JsonBody(JsonObject(Some(JsNull))),
    JsonBody(JsonObject(Some(JsString(<<>>)))),
    JsonBody(JsonObject(Some(JsString(DETAIL_INVALID_RANGE)))),
    JsonBody(JsonObject(Some(JsArrayOfObject))) }

Responses ==
  { [status |-> sl.status, statusText |-> sl.statusText, body |-> b] :
      sl \in StatusLines, b \in Bodies }

InitApiFetch ==
  /\ NoController
  /\ ret = Null
  /\ call \in { Some([fn |-> "apiFetch", response |-> resp]) : resp \in Responses }

\* apiFetch from the answer of fetch to its return or throw.
CallApiFetch ==
  /\ Calling("apiFetch")
  /\ ret' = Some(apiFetchOutcome(call[1].response))
  /\ UNCHANGED <<state, cycles, filters, call, views>>

NextApiFetch == CallApiFetch

SpecApiFetch == InitApiFetch /\ [][NextApiFetch]_vars

\* The detail string the body carries, <<>> when it carries none.
DetailStringOf(body) ==
  IF /\ body.json
     /\ body.parsed.t = "object"
     /\ body.parsed.detail # Null
     /\ body.parsed.detail[1].t = "string"
  THEN body.parsed.detail[1].v
  ELSE <<>>

HasNoDetail(body) ==
  \/ ~body.json
  \/ body.parsed.t # "object"
  \/ body.parsed.detail = Null
  \/ body.parsed.detail[1].t \in {"null", "undefined"}

\* C20 (error transport): for a non-success response apiFetch throws one
\* Error whose message holds the numeric status, then the body's detail
\* string when the body carries one, and the status phrase when the body
\* has no detail or is not parseable JSON; it returns no value.
C20_ErrorTransport ==
  (Returned("apiFetch") /\ call[1].response.status \notin 200..299) =>
    LET resp == call[1].response
    IN  /\ ret[1].threw
        /\ ret[1].error.name = "Error"
        /\ ret[1].error.message # Null
        /\ Len(ret[1].error.message[1]) = 4
        /\ ret[1].error.message[1][1] = "API request failed ("
        /\ ret[1].error.message[1][2] = resp.status
        /\ DetailStringOf(resp.body) # <<>>
             => ret[1].error.message[1][4] = DetailStringOf(resp.body)
        /\ HasNoDetail(resp.body)
             => ret[1].error.message[1][4] = resp.statusText

\* A 422 whose body carries a detail, thrown with that detail.
C20_Witness ==
  /\ Returned("apiFetch")
  /\ call[1].response =
       [status |-> 422, statusText |-> STATUS_422,
        body |-> JsonBody(JsonObject(Some(JsString(DETAIL_INVALID_RANGE))))]
  /\ ret[1] = [threw |-> TRUE,
               error |-> [name |-> "Error",
                          message |-> Some(<<"API request failed (", 422, "): ",
                                             DETAIL_INVALID_RANGE>>)]]

\* ------------------------------------------- PriorityOrdersTab: heat map
\* heatmapData: data?.heatmap ?? { periods: [], customers: [] }, with the
\* heat map of the data the controller holds (Null while data is null).
heatmapData(heatmap) ==
  IF heatmap = Null THEN [periods |-> <<>>, customers |-> <<>>] ELSE heatmap[1]

\* heatmapKeys: [...heatmapData.periods]
heatmapKeys(data) == [i \in 1..Len(data.periods) |-> data.periods[i]]

\* Cells only for the periods the customer's mapping holds.
heatmapCellsOwnKeys(customer, keys) ==
  LET own == FilterTruthy([i \in 1..Len(keys) |->
                             IF keys[i] \in DOMAIN customer.data THEN keys[i] ELSE <<>>])
  IN  [i \in 1..Len(own) |-> [x |-> own[i], y |-> customer.data[own[i]]]]

\* heatmapKeys.map((period) => ({ x: period, y: customer.data[period] ?? 0 }))
heatmapCells(customer, keys) ==
  [i \in 1..Len(keys) |->
     [x |-> keys[i],
      y |-> IF keys[i] \in DOMAIN customer.data THEN customer.data[keys[i]] ELSE 0]]

\* heatmapRows: one serie per customer, [] when there is no customer.
heatmapRows(heatmap) ==
  LET data == heatmapData(heatmap)
  IN  IF Len(data.customers) = 0 THEN <<>>
      ELSE [r \in 1..Len(data.customers) |->
              [id   |-> data.customers[r].customerName,
               data |-> heatmapCells(data.customers[r], heatmapKeys(data))]]

\* Longest list of triples behind a rendered heat map.
MaxRowTriples == 2

InitHeatmapRows ==
  /\ NoController
  /\ call \in { Some([fn |-> "mapHeatmap", entries |-> e]) :
                  e \in SeqUpTo(HeatmapTriples, MaxRowTriples) }
  /\ ret = Null

\* A render of the tab: the memo of heatmapRows is recomputed from the heat
\* map held at that moment (none before the data arrived).
RenderHeatmapRows ==
  /\ call # Null /\ call[1].fn = "mapHeatmap"
  /\ tab.heatmapRows # Some(heatmapRows(ret))
  /\ tab' = [tab EXCEPT !.heatmapRows = Some(heatmapRows(ret))]
  /\ UNCHANGED <<state, cycles, filters, call, ret, page, tat>>

NextHeatmapRows == CallMapHeatmap \/ RenderHeatmapRows

SpecHeatmapRows == InitHeatmapRows /\ [][NextHeatmapRows]_vars

\* rows is the dense reading of the heat map data.
Densified(rows, data) ==
  /\ Len(rows) = Len(data.customers)
  /\ \A r \in 1..Len(rows) :
       /\ rows[r].id = data.customers[r].customerName
       /\ Len(rows[r].data) = Len(data.periods)
       /\ \A i \in 1..Len(data.periods) :
            /\ rows[r].data[i].x = data.periods[i]
            /\ rows[r].data[i].y
                 = IF data.periods[i] \in DOMAIN data.customers[r].data
                   THEN data.customers[r].data[data.periods[i]] ELSE 0

\* C25 (read-time densification): the rows a render builds have, for every
\* customer of the heat map, one cell per key of the period axis in axis
\* order, holding the mapped count or 0 when the mapping has no entry; the
\* render leaves the stored heat map as it was.
C25_Densification ==
  [][tab'.heatmapRows # tab.heatmapRows =>
       /\ ret' = ret
       /\ tab'.heatmapRows # Null
       /\ Densified(tab'.heatmapRows[1],
                    IF ret = Null THEN [periods |-> <<>>, customers |-> <<>>]
                    ELSE ret[1])]_vars

\* Rows rendered from a heat map with two periods in which one customer has
\* no entry for one of them: that cell reads 0.
C25_Witness ==
  /\ Returned("mapHeatmap")
  /\ tab.heatmapRows = Some(heatmapRows(ret))
  /\ Len(ret[1].periods) = 2
  /\ \E r \in 1..Len(tab.heatmapRows[1]) :
       \E i, j \in 1..2 :
         /\ ret[1].periods[i] \notin DOMAIN ret[1].customers[r].data
         /\ tab.heatmapRows[1][r].data[i].y = 0
         /\ tab.heatmapRows[1][r].data[j].y > 0

\* ------------------------------------------------------ order preservation
\* The i-th element of the returned sequence is the projection of the i-th
\* record of the input, for the three mappers of C26.
SamePositions ==
  LET in == call[1].entries
  IN  IF call[1].fn = "mapTimeline"
      THEN /\ ~ret[1].threw
           /\ Len(ret[1].value) = Len(in)
           /\ \A i \in 1..Len(in) :
                /\ ret[1].value[i].date = parseISO(in[i].period_start)
                /\ ret[1].value[i].label = formatDateLabel(parseISO(in[i].period_start))
                /\ ret[1].value[i].overdueOrders = in[i].overdue_orders
      ELSE /\ Len(ret[1]) = Len(in)
           /\ \A i \in 1..Len(in) :
                /\ ret[1][i] = mapOrder(in[i], slaThreshold(call[1].slaHours))
                /\ ret[1][i].id = in[i].order_id
                /\ ret[1][i].openHours = in[i].open_hours

OrderMappers == {"mapOrders", "mapWarnings", "mapTimeline"}

\* C26 as stated (order preservation): mapOrders, mapWarnings and
\* mapTimeline return, for every input, a sequence of the input's length
\* whose i-th element comes from the i-th record.
C26_OrderPreservedAll ==
  (call # Null /\ ret # Null /\ call[1].fn \in OrderMappers) => SamePositions

\* C26 (order preservation, amended): mapOrders and mapWarnings for every
\* input, and mapTimeline for every input whose period_start values all
\* parse to a date, return a sequence of the input's length whose i-th
\* element comes from the i-th record; mapTimeline throws when some
\* period_start does not parse.
C26_OrderPreserved ==
  (call # Null /\ ret # Null /\ call[1].fn \in OrderMappers) =>
    IF /\ call[1].fn = "mapTimeline"
       /\ \E i \in 1..Len(call[1].entries) :
            ~parseISO(call[1].entries[i].period_start).valid
    THEN ret[1].threw
    ELSE SamePositions

\* Two orders with different open hours, returned in the order given with
\* the larger second.
C26_Witness ==
  /\ Returned("mapOrders")
  /\ Len(call[1].entries) = 2
  /\ JsGreater(call[1].entries[2].open_hours, call[1].entries[1].open_hours)
  /\ ret[1][1].openHours = call[1].entries[1].open_hours
  /\ ret[1][2].openHours = call[1].entries[2].open_hours

\* ------------------------------------------- DashboardPage: sync status
\* Mounts of the page in one behaviour.
MaxMounts == 2

\* formatDateTimeShort is imported from utils/format; the label is kept as
\* the application of that function to the parsed date.
formatDateTimeShort(date) == <<"formatDateTimeShort", date>>

\* Bodies of /metrics/sync/status: updated_at null, '' or a date.
SyncStatuses ==
  { [entity |-> "tests", updated_at |-> u] :
      u \in {Null, Some(<<>>), Some(Date_2024_01_01), Some(Date_2024_01_08)} }

\* One mounted instance of the page: the state syncLabel, the effect's
\* local flag cancelled and the promise of its apiFetch call.
pageMounted ==
  [mounted |-> TRUE, cancelled |-> FALSE, request |-> "pending",
   status |-> Null, syncLabel |-> Null]

\* A continuation that does not look at cancelled.
syncStatusResolvedUnchecked(inst, status) ==
  IF status.updated_at # Null /\ status.updated_at[1] # <<>>
  THEN [inst EXCEPT !.syncLabel =
                      Some(formatDateTimeShort(parseISO(status.updated_at[1])))]
  ELSE [inst EXCEPT !.syncLabel = Null]

\* Lines 53-59: the effect's continuation after a fulfilled await.
syncStatusResolved(inst, status) ==
  IF inst.cancelled THEN inst
  ELSE IF status.updated_at # Null /\ status.updated_at[1] # <<>>
  THEN [inst EXCEPT !.syncLabel =
                      Some(formatDateTimeShort(parseISO(status.updated_at[1])))]
  ELSE [inst EXCEPT !.syncLabel = Null]

\* Lines 60-64: the catch branch.
syncStatusRejected(inst) ==
  IF ~inst.cancelled THEN [inst EXCEPT !.syncLabel = Null] ELSE inst

\* The page mounts: the effect runs once and issues the request.
PageMount ==
  /\ Len(page) < MaxMounts
  /\ IF page = <<>> THEN TRUE ELSE ~page[Len(page)].mounted
  /\ page' = Append(page, pageMounted)
  /\ UNCHANGED <<state, cycles, filters, call, ret, tat, tab>>

\* The page unmounts: the effect's cleanup sets cancelled.
PageUnmount(i) ==
  /\ i \in 1..Len(page)
  /\ page[i].mounted
  /\ page' = [page EXCEPT ![i] = [@ EXCEPT !.mounted = FALSE, !.cancelled = TRUE]]
  /\ UNCHANGED <<state, cycles, filters, call, ret, tat, tab>>

SyncStatusSucceeds(i, status) ==
  /\ i \in 1..Len(page)
  /\ page[i].request = "pending"
  /\ page' = [page EXCEPT ![i] =
                syncStatusResolved([@ EXCEPT !.request = "fulfilled",
                                             !.status = Some(status)], status)]
  /\ UNCHANGED <<state, cycles, filters, call, ret, tat, tab>>

SyncStatusFails(i) ==
  /\ i \in 1..Len(page)
  /\ page[i].request = "pending"
  /\ page' = [page EXCEPT ![i] =
                syncStatusRejected([@ EXCEPT !.request = "rejected"])]
  /\ UNCHANGED <<state, cycles, filters, call, ret, tat, tab>>

NextPage ==
  \/ PageMount
  \/ \E i \in 1..MaxMounts : PageUnmount(i)
  \/ \E i \in 1..MaxMounts, status \in SyncStatuses : SyncStatusSucceeds(i, status)
  \/ \E i \in 1..MaxMounts : SyncStatusFails(i)

SpecPage == Init /\ [][NextPage]_vars

\* C28 (sync-status cancellation): once the cleanup of a page instance has
\* run, no later step, in particular no completion of its request, changes
\* that instance's sync label.
C28_CancelledKeepsLabel ==
  [][\A i \in 1..Len(page) :
       page[i].cancelled => page'[i].syncLabel = page[i].syncLabel]_vars

\* A request that came back with a date after the page was unmounted: the
\* label is still the one the page had.
C28_Witness ==
  \E i \in 1..Len(page) :
    /\ page[i].cancelled
    /\ page[i].request = "fulfilled"
    /\ page[i].status[1].updated_at = Some(Date_2024_01_01)
    /\ page[i].syncLabel = Null

\* --------------------------------------- useTatOrders (slow-orders controller)
\* Calls of refresh in one behaviour.
MaxTatCycles == 3

\* What the awaited fetchSlowReportedOrders can reject with: the Error of
\* apiFetch, or a value that is not an Error.
TatRejections ==
  { [isError |-> TRUE, message |-> apiFetchErrorMessage(resp)] : resp \in HttpFailures }
    \cup { [isError |-> FALSE, message |-> <<>>] }

\* refresh, line 18: setState(prev => ({...prev, loading: true, error: null}))
tatRefreshStart(prev) == [prev EXCEPT !.loading = TRUE, !.error = Null]

\* refresh, line 28: the response replaces data.
tatRefreshFulfilled(prev, response) ==
  [data |-> Some(response), loading |-> FALSE, error |-> Null]

\* A catch branch like the one of usePriorityOrders: data is dropped.
tatRefreshRejectedClearing(prev, reason) ==
  [data |-> Null, loading |-> FALSE,
   error |-> Some(IF reason.isError THEN reason.message ELSE <<"Unknown error">>)]

\* refresh, lines 29-32: setState(prev => ({data: prev.data, loading: false,
\* error: message})).
tatRefreshRejected(prev, reason) ==
  [data |-> prev.data, loading |-> FALSE,
   error |-> Some(IF reason.isError THEN reason.message ELSE <<"Unknown error">>)]

\* One call of refresh (from the effect or from the caller): the optimistic
\* setState and the request.
TatRefresh ==
  /\ Len(tat.requests) < MaxTatCycles
  /\ tat' = [state |-> tatRefreshStart(tat.state),
             requests |-> Append(tat.requests, "pending")]
  /\ UNCHANGED <<state, cycles, filters, call, ret, page, tab>>

TatSucceeds(i) ==
  /\ i \in 1..Len(tat.requests)
  /\ tat.requests[i] = "pending"
  /\ tat' = [state |-> tatRefreshFulfilled(tat.state, [cycle |-> i]),
             requests |-> [tat.requests EXCEPT ![i] = "fulfilled"]]
  /\ UNCHANGED <<state, cycles, filters, call, ret, page, tab>>

TatFails(i, reason) ==
  /\ i \in 1..Len(tat.requests)
  /\ tat.requests[i] = "pending"
  /\ tat' = [state |-> tatRefreshRejected(tat.state, reason),
             requests |-> [tat.requests EXCEPT ![i] = "rejected"]]
  /\ UNCHANGED <<state, cycles, filters, call, ret, page, tab>>

NextTat ==
  \/ TatRefresh
  \/ \E i \in 1..MaxTatCycles : TatSucceeds(i)
  \/ \E i \in 1..MaxTatCycles, reason \in TatRejections : TatFails(i, reason)

SpecTat == Init /\ [][NextTat]_vars

\* C29 (useTatOrders keeps data on failure): the step in which a refresh
\* fails leaves data as it was, sets loading to false and error to a
\* message; a step that changes data is the success of a refresh.
C29_KeepsDataOnFailure ==
  [][/\ \A i \in 1..Len(tat.requests) :
          (tat.requests[i] = "pending" /\ tat'.requests[i] = "rejected")
            => /\ tat'.state.data = tat.state.data
               /\ tat'.state.loading = FALSE
               /\ tat'.state.error # Null
               /\ tat'.state.error[1] # <<>>
     /\ tat'.state.data # tat.state.data
          => \E i \in 1..Len(tat.requests) :
               /\ tat.requests[i] = "pending"
               /\ tat'.requests[i] = "fulfilled"
               /\ tat'.state.data = Some([cycle |-> i])]_vars

\* The first refresh succeeded and a later one failed: its data is still
\* shown, next to the error.
C29_Witness ==
  /\ Len(tat.requests) >= 2
  /\ tat.requests[1] = "fulfilled"
  /\ tat.requests[2] = "rejected"
  /\ tat.state.data = Some([cycle |-> 1])
  /\ tat.state.error # Null
  /\ ~tat.state.loading

\* ------------------------------------ PriorityOrdersTab: the Refresh button
\* The days the clock shows in one behaviour: the day of the mount and the
\* next one.
Days == {1, 2}

\* Cycles the tab starts in one behaviour (the mount and the clicks).
MaxTabCycles == 2

\* Most malformed success bodies the tab's requests are answered with.
MaxTabMalformed == 1

LOOKBACK_DAYS == 30

\* The changes of the UTC offset between the two ends of a lookback: the
\* clocks went back an hour in it, no change, the clocks went forward an hour.
OffsetChanges == {0 - 3600000, 0, 3600000}

\* subDays(date, amount) of date-fns on a Date [day, ms] (UTC day number and
\* millisecond of that day): the calendar day is moved back in local time
\* and the local time of day is kept, so the UTC instant moves back by
\* amount days less the change of the UTC offset between the two dates.
subDays(date, amount, offsetChange) ==
  LET ms == date.ms + offsetChange
      carry == IF ms >= 86400000 THEN 1 ELSE IF ms < 0 THEN 0 - 1 ELSE 0
  IN  [day |-> date.day - amount + carry, ms |-> ms - carry * 86400000]

\* computeRange: end is the last millisecond of the current UTC day, start
\* is subDays(end, LOOKBACK_DAYS - 1) moved to the first millisecond of its
\* UTC day; from and to are the UTC days of start and end.  With no clock
\* change in the lookback, from is LOOKBACK_DAYS - 1 days before today; when
\* the clocks went forward in it, start falls just after the following
\* midnight UTC and from is one day later.
computeRange(clock) ==
  LET end == [day |-> clock.today, ms |-> 86399999]
      start == subDays(end, LOOKBACK_DAYS - 1, clock.offsetChange)
  IN  [from |-> start.day, to |-> end.day]

\* The filters of the first render (lines 36-47).
tabInitialFilters(clock) ==
  [dateFrom |-> computeRange(clock).from,
   dateTo |-> computeRange(clock).to,
   interval |-> "day",
   minDaysOverdue |-> DEFAULT_MIN_DAYS,
   slaHours |-> DEFAULT_SLA_HOURS]

\* StrWhiteSpaceChar: the white space and line terminator code units that
\* Number.parseInt skips at the start of its argument.
IsStrWhiteSpaceChar(c) ==
  \/ c \in {9, 10, 11, 12, 13, 32, 160, 5760, 8232, 8233, 8239, 8287, 12288, 65279}
  \/ c \in 8192..8202

\* Number.parseInt(str, 10): leading white space, an optional sign, then the
\* longest prefix of digits; NaN when there is no digit.
RECURSIVE digitsValue(_, _)
digitsValue(str, acc) ==
  IF str # <<>> /\ IsDigit(str[1])
  THEN digitsValue(Tail(str), 10 * acc + (str[1] - 48)) ELSE acc

RECURSIVE parseInt(_)
parseInt(str) ==
  IF str = <<>> THEN NaN
  ELSE IF IsStrWhiteSpaceChar(str[1]) THEN parseInt(Tail(str))
  ELSE IF str[1] = 45
  THEN IF Len(str) > 1 /\ IsDigit(str[2]) THEN Fin(0 - digitsValue(Tail(str), 0)) ELSE NaN
  ELSE IF str[1] = 43
  THEN IF Len(str) > 1 /\ IsDigit(str[2]) THEN Fin(digitsValue(Tail(str), 0)) ELSE NaN
  ELSE IF IsDigit(str[1]) THEN Fin(digitsValue(str, 0)) ELSE NaN

\* handleInputChange: Number.parseInt(value || '0', 10), kept out of the
\* form when it is NaN.
handleInputChange(formState, name, value) ==
  LET parsed == parseInt(IF value = <<>> THEN <<48>> ELSE value)
  IN  IF parsed = NaN THEN formState ELSE [formState EXCEPT ![name] = parsed.v]

\* applyFilters, lines 58-65: the filters computed at the click.
nextFilters(formState, clock) ==
  [dateFrom |-> computeRange(clock).from,
   dateTo |-> computeRange(clock).to,
   interval |-> "day",
   minDaysOverdue |-> formState.minDaysOverdue,
   slaHours |-> formState.slaHours]

\* applyFilters, lines 67-71.
unchanged(current, next) ==
  /\ current.dateFrom = next.dateFrom
  /\ current.dateTo = next.dateTo
  /\ current.minDaysOverdue = next.minDaysOverdue
  /\ current.slaHours = next.slaHours

\* A button that stays enabled while loading.
refreshNeverDisabled(st) == FALSE

\* Line 157: disabled={loading}
refreshDisabled(st) == st.loading

\* Texts typed into the number inputs: "5" and "x" into minDaysOverdue, ""
\* and "x" into slaHours.
InputValues ==
  { [name |-> "minDaysOverdue", value |-> <<53>>],
    [name |-> "minDaysOverdue", value |-> <<120>>],
    [name |-> "slaHours", value |-> <<>>],
    [name |-> "slaHours", value |-> <<120>>] }

\* The tab is mounted in a browser of any of the time zones.
InitTab ==
  /\ state = initialState
  /\ cycles = <<>>
  /\ call = Null
  /\ ret = Null
  /\ page = <<>>
  /\ tat = [state |-> tatInitialState, requests |-> <<>>]
  /\ tab \in {[tabInitial EXCEPT !.offsetChange = o] : o \in OffsetChanges}
  /\ filters = tabInitialFilters(tab)

InputChange(name, value) ==
  /\ tab' = [tab EXCEPT !.formState = handleInputChange(tab.formState, name, value)]
  /\ UNCHANGED <<state, cycles, filters, call, ret, page, tat>>

\* Midnight UTC passes; a clock change may enter or leave the lookback.
DayPasses ==
  /\ tab.today + 1 \in Days
  /\ \E o \in OffsetChanges :
       tab' = [tab EXCEPT !.today = @ + 1, !.offsetChange = o]
  /\ UNCHANGED <<state, cycles, filters, call, ret, page, tat>>

\* A click on Refresh: applyFilters, then the render it causes (the effect
\* calls the new refresh when filters changed).
ApplyFilters ==
  /\ Len(cycles) > 0
  /\ ~refreshDisabled(state)
  /\ IF unchanged(filters, nextFilters(tab.formState, tab))
     THEN Refresh
     ELSE FilterChange(nextFilters(tab.formState, tab))

\* The bodies the tab's requests are answered with: a well-formed one, or
\* the JSON value null (a projection throws on it).
TabBodyShapes == {"wellFormed", "null"}

TabStep ==
  \/ Mount
  \/ \E input \in InputValues : InputChange(input.name, input.value)
  \/ DayPasses
  \/ ApplyFilters
  \/ \E c \in 1..MaxCycles, r \in Resources, shape \in TabBodyShapes :
       RequestSucceeds(c, r, shape)
  \/ \E c \in 1..MaxCycles, r \in Resources :
       RequestFails(c, r, HttpFailureOf(r))

NextTab ==
  /\ TabStep
  /\ Len(cycles') <= MaxTabCycles
  /\ Cardinality(MalformedBodies') <= MaxTabMalformed

SpecTab == InitTab /\ [][NextTab]_vars

InFlight == {c \in 1..NumCycles : CycleState(cycles[c]) = "Fetching"}

\* C30 (refresh gating): a cycle is started after the mount only while
\* loading is false (the button is disabled otherwise); the step of a click
\* starts exactly one cycle, with the current filters when the computed ones
\* are unchanged and with the computed ones otherwise; at most one cycle is
\* in flight at any time.
C30_RefreshGating ==
  /\ [](Cardinality(InFlight) <= 1)
  /\ [](state.loading <=> InFlight # {})
  /\ [][(Len(cycles') # Len(cycles) /\ Len(cycles) > 0) =>
          /\ ~state.loading
          /\ Len(cycles') = Len(cycles) + 1
          /\ cycles'[Len(cycles')].filters = nextFilters(tab.formState, tab)
          /\ filters' = nextFilters(tab.formState, tab)
          /\ (unchanged(filters, nextFilters(tab.formState, tab))
                <=> filters' = filters)]_vars

\* A click with edited filters after the first cycle ended: the second cycle
\* is the only one in flight.
C30_Witness ==
  /\ NumCycles = 2
  /\ InFlight = {2}
  /\ cycles[2].filters.minDaysOverdue = 5
  /\ cycles[1].filters.minDaysOverdue = DEFAULT_MIN_DAYS
  /\ state.loading

====
